---- MODULE Spec2Model ----
(***************************************************************************)
(* A model of the multi-stage retrieval pipeline of src/retrieval.py       *)
(* (class ParallelAdvancedRetriever): the search entry point, its three    *)
(* modes, the thread-pool fan-outs of dense and lexical sub-searches, and  *)
(* the stages that follow them (rank fusion, late-interaction scoring,     *)
(* pairwise rerank, diversity filter).                                     *)
(*                                                                         *)
(* The embedder, the cross-encoder, BM25 and the SQLite store are black    *)
(* boxes of the program.  Their answers are values drawn from small sets:  *)
(* a score level per chunk for the two sub-searches (fixed with the        *)
(* corpus), and a score per text for each batched scoring call, drawn when *)
(* the call is made.  Floats are modelled by integers (score levels,       *)
(* similarities in hundredths) and the fused rank score by an exact        *)
(* fraction over a common denominator.                                     *)
(***************************************************************************)
EXTENDS Integers, Sequences, FiniteSets, TLC

VARIABLES
    corpus,       \* rows of the docs table, in id order: [id, text, full]
    denseScore,   \* chunk id -> cosine level of its 'full' embedding with the query
    bm25Score,    \* chunk id -> BM25 level of its text for the query
    query,        \* search(query, ...)
    top_k,        \* search(..., top_k, ...)
    mode,         \* search(..., mode)
    pc,           \* position of the controller inside search
    variants,     \* thorough_search: all_queries (variant numbers, 1 = root query)
    fut,          \* the futures of the running fan-out: task -> status and result
    all_results,  \* thorough_search: results extended in completion order
    cands,        \* the candidate list handed from stage to stage
    repeat,       \* the same call repeated with the tasks completing in submission order
    result,       \* the list search returned
    outcome,      \* "running", "returned" or "raised"
    calls,        \* collaborator kind -> number of calls made by this search
    diagnostics,  \* number of "Search error" lines printed by thorough_search
    faults,       \* number of collaborator calls that failed during this search
    sims,         \* the cosines the diversity filter computed: text pair -> hundredths
    rrf_lists,    \* argument of a direct call of reciprocal_rank_fusion
    rrf_fused,    \* what that call returned
    stage_in,     \* arguments of a direct call of a later stage
    stage_out,    \* what that call returned
    task_pc,      \* position of each pool task inside its sub-search
    db_lock       \* self.db_lock: 0 when free, else the task that holds it

\* the corpus, the scores of its chunks and the arguments of the call
inputs == <<corpus, denseScore, bm25Score, query, top_k, mode>>
\* a direct call of a stage
direct == <<rrf_lists, rrf_fused, stage_in, stage_out>>
\* the pool tasks seen step by step
pool == <<task_pc, db_lock>>

vars == <<corpus, denseScore, bm25Score, query, top_k, mode, pc, variants, fut,
          all_results, cands, repeat, result, outcome, calls, diagnostics, faults,
          sims, rrf_lists, rrf_fused, stage_in, stage_out, task_pc, db_lock>>

----------------------------------------------------------------------------
(* Bounds of the model *)

MaxChunks == 2
MaxTopK == 3
MaxVariants == 2

(* Program constants *)

RRF_K == 60
StandardSearchK == 20
StandardRerankN == 15
VariantCap == 7
FanoutVariants == 5
ThoroughSearchK == 10
MultiVecInput == 50
MultiVecK == 30
ThoroughRerankK == 20
DiversityThreshold == 85

(* Value sets of the black boxes *)

ScoreLevels == {0, 1}
\* the cosines of a text's sentences with the query (a cosine may be
\* negative); empty for a text with no fragment longer than 10 characters
SentenceSims == {<<>>, <<-1>>, <<-1, 1>>}
RerankLevels == {0, 1}
\* cosine similarity of two different texts, in hundredths
SimLevels == {50, 85}
Queries == {"", "q"}
ModeArgs == {"fast", "standard", "thorough", "other"}
TopKs == 0..MaxTopK
CallKinds == {"store", "embed", "bm25", "rerank", "enhance"}

----------------------------------------------------------------------------
(* Python list helpers *)

Min(a, b) == IF a <= b THEN a ELSE b
Max(a, b) == IF a >= b THEN a ELSE b

\* s[:k]
Take(s, k) ==
    LET n == IF k >= 0 THEN Min(k, Len(s)) ELSE Max(Len(s) + k, 0)
    IN  SubSeq(s, 1, n)

\* s[-k:] for k >= 1
Last(s, k) == SubSeq(s, Max(Len(s) - k, 0) + 1, Len(s))

\* s[::-1]
Reverse(s) == [i \in 1..Len(s) |-> s[Len(s) + 1 - i]]

Range(s) == {s[i] : i \in 1..Len(s)}

\* the elements of s at the indices lo..hi that are in I, in order
RECURSIVE PickFrom(_, _, _, _)
PickFrom(s, I, lo, hi) ==
    IF lo > hi THEN <<>>
    ELSE IF lo = hi THEN (IF lo \in I THEN <<s[lo]>> ELSE <<>>)
    ELSE LET mid == (lo + hi) \div 2
         IN  PickFrom(s, I, lo, mid) \o PickFrom(s, I, mid + 1, hi)

\* the elements of s at the indices in I, in order
Pick(s, I) == PickFrom(s, I, 1, Len(s))

\* the elements of s grouped by key (ks[i] is the key of s[i]), the groups
\* in descending or ascending key order, each group in the order of s
RECURSIVE GroupByKey(_, _, _, _)
GroupByKey(s, ks, keys, descending) ==
    IF keys = {} THEN <<>>
    ELSE LET first == CHOOSE a \in keys :
                         \A b \in keys : IF descending THEN a >= b ELSE a <= b
         IN  Pick(s, {i \in 1..Len(s) : ks[i] = first})
                \o GroupByKey(s, ks, keys \ {first}, descending)

\* list.sort(key=..., reverse=True) on <<key, item>> pairs: descending and
\* stable, equal keys keep their input order
SortDesc(pairs) ==
    GroupByKey(pairs, [i \in 1..Len(pairs) |-> pairs[i][1]],
               {pairs[i][1] : i \in 1..Len(pairs)}, TRUE)

\* numpy.argsort(scores): ascending, equal scores in index order
ArgSort(scores, n) ==
    GroupByKey([i \in 1..n |-> i], [i \in 1..n |-> scores[i]],
               {scores[i] : i \in 1..n}, FALSE)

Items(pairs) == [i \in 1..Len(pairs) |-> pairs[i][2]]

\* the value a call returns, or the exception it raises
Ok(v) == [ok |-> TRUE, val |-> v]
Raise == [ok |-> FALSE, val |-> <<>>]

----------------------------------------------------------------------------
(* Result dicts *)

\* the dict vector_search and bm25_search build for a row
\* a result dict that takes its metadata from the following row
HitOfTwoRows(row, score) ==
    [id |-> row.id, source |-> row.source, chunk_text |-> row.text,
     metadata |-> <<"metadata", row.id + 1>>, score |-> score]

Hit(row, score) ==
    [id |-> row.id, source |-> row.source, chunk_text |-> row.text,
     metadata |-> row.metadata, score |-> score]

\* the docs row of chunk id with the given text; full: the chunk has an
\* embedding of type 'full'
Row(id, text, full) ==
    [id |-> id, source |-> <<"source", id>>, text |-> text,
     metadata |-> <<"metadata", id>>, full |-> full]

\* doc[field] = value
Stamp(doc, field, value) ==
    [f \in DOMAIN doc \cup {field} |-> IF f = field THEN value ELSE doc[f]]

RECURSIVE SumSeq(_)
SumSeq(s) == IF s = <<>> THEN 0 ELSE s[1] + SumSeq(Tail(s))

RECURSIVE Concat(_)
Concat(lists) == IF lists = <<>> THEN <<>> ELSE lists[1] \o Concat(Tail(lists))

----------------------------------------------------------------------------
(* The two sub-searches *)

\* vector_search without the [:k] slice
VectorRankAll(rows, scoreOf, k) ==
    LET embedded == SelectSeq(rows, LAMBDA r : r.full)
        results  == [i \in 1..Len(embedded) |->
                        <<scoreOf[embedded[i].id], Hit(embedded[i], scoreOf[embedded[i].id])>>]
    IN  Items(SortDesc(results))

\* vector_search, after the query is embedded and the rows are fetched: one
\* hit per docs row joined with its 'full' embedding, sorted by cosine
VectorRank(rows, scoreOf, k) ==
    LET embedded == SelectSeq(rows, LAMBDA r : r.full)
        results  == [i \in 1..Len(embedded) |->
                        <<scoreOf[embedded[i].id], Hit(embedded[i], scoreOf[embedded[i].id])>>]
    IN  Take(Items(SortDesc(results)), k)

vector_search(q, k) == VectorRank(corpus, denseScore, k)

\* BM25Plus(corpus).get_scores(query_tokens); rank_bm25 divides by the corpus
\* size when it builds the index, so an empty corpus raises
BM25Plus(all_docs, scoreOf) ==
    IF all_docs = <<>> THEN Raise
    ELSE Ok([i \in 1..Len(all_docs) |-> scoreOf[all_docs[i].id]])

\* bm25_search without the "if not all_docs" return
BM25RankUnguarded(all_docs, scoreOf, k) ==
    LET scored == BM25Plus(all_docs, scoreOf)
    IN  IF ~scored.ok THEN Raise
        ELSE LET scores      == scored.val
                 top_indices == Reverse(Last(ArgSort(scores, Len(scores)), k))
             IN  Ok([i \in 1..Len(top_indices) |->
                        Hit(all_docs[top_indices[i]], scores[top_indices[i]])])

\* bm25_search once the rows are fetched
BM25Rank(all_docs, scoreOf, k) ==
    IF all_docs = <<>> THEN Ok(<<>>)
    ELSE LET scored == BM25Plus(all_docs, scoreOf)
         IN  IF ~scored.ok THEN Raise
             ELSE LET scores      == scored.val
                      top_indices == Reverse(Last(ArgSort(scores, Len(scores)), k))
                  IN  Ok([i \in 1..Len(top_indices) |->
                             Hit(all_docs[top_indices[i]], scores[top_indices[i]])])

bm25_search(q, k) == BM25Rank(corpus, bm25Score, k)

----------------------------------------------------------------------------
(* Rank fusion *)

\* the visits with every list after the first walked from its end
RRFVisitsBottomUp(result_lists) ==
    Concat([l \in 1..Len(result_lists) |->
              [r \in 1..Len(result_lists[l]) |->
                  [rank |-> r,
                   result |-> IF l = 1 THEN result_lists[l][r]
                              ELSE result_lists[l][Len(result_lists[l]) + 1 - r]]]])

\* the (rank, result) pairs in the order the two loops visit them
RRFVisits(result_lists) ==
    Concat([l \in 1..Len(result_lists) |->
              [r \in 1..Len(result_lists[l]) |->
                  [rank |-> r, result |-> result_lists[l][r]]]])

RECURSIVE Product(_, _)
Product(from, to) == IF from > to THEN 1 ELSE from * Product(from + 1, to)

RECURSIVE MaxLen(_)
MaxLen(lists) == IF lists = <<>> THEN 0 ELSE Max(Len(lists[1]), MaxLen(Tail(lists)))

\* common denominator of the terms 1/(k + rank) of one call
RRFDen(result_lists, k) == Product(k + 1, k + MaxLen(result_lists))

\* the accumulation with enumerate(results) in place of enumerate(results, 1)
RECURSIVE RRFLoopFromZero(_, _, _, _, _)
RRFLoopFromZero(visits, i, scores, k, den) ==
    IF i > Len(visits) THEN scores
    ELSE LET doc_id == visits[i].result.chunk_text
             known  == \E j \in 1..Len(scores) : scores[j].doc_id = doc_id
             opened == IF known THEN scores
                       ELSE Append(scores, [doc_id |-> doc_id, score |-> 0,
                                            result |-> visits[i].result])
             added  == [j \in 1..Len(opened) |->
                          IF opened[j].doc_id = doc_id
                          THEN [opened[j] EXCEPT !.score = @ + den \div (k + visits[i].rank - 1)]
                          ELSE opened[j]]
         IN  RRFLoopFromZero(visits, i + 1, added, k, den)

\* the scores dict after the visits from index i on, as a list of its
\* entries in insertion order; a score is a numerator over den
RECURSIVE RRFLoop(_, _, _, _, _)
RRFLoop(visits, i, scores, k, den) ==
    IF i > Len(visits) THEN scores
    ELSE LET doc_id == visits[i].result.chunk_text
             known  == \E j \in 1..Len(scores) : scores[j].doc_id = doc_id
             opened == IF known THEN scores
                       ELSE Append(scores, [doc_id |-> doc_id, score |-> 0,
                                            result |-> visits[i].result])
             added  == [j \in 1..Len(opened) |->
                          IF opened[j].doc_id = doc_id
                          THEN [opened[j] EXCEPT !.score = @ + den \div (k + visits[i].rank)]
                          ELSE opened[j]]
         IN  RRFLoop(visits, i + 1, added, k, den)

\* the scores dict once both loops are done
RRFTable(result_lists, k) ==
    RRFLoop(RRFVisits(result_lists), 1, <<>>, k, RRFDen(result_lists, k))

\* scores[doc_id]['score'], as a numerator over RRFDen; 0 for a text that is
\* in no list
RRFScore(result_lists, k, doc_id) ==
    LET scores == RRFTable(result_lists, k)
    IN  SumSeq([j \in 1..Len(scores) |->
                  IF scores[j].doc_id = doc_id THEN scores[j].score ELSE 0])

\* the fusion with a sort that puts equal scores in reverse insertion order
reciprocal_rank_fusion_unstable(result_lists, k) ==
    LET scores == RRFTable(result_lists, k)
    IN  Reverse(Items(SortDesc([j \in 1..Len(scores) |->
                                  <<0 - scores[j].score, scores[j].result>>])))

\* the fusion with sorted(...) lacking reverse=True
reciprocal_rank_fusion_ascending(result_lists, k) ==
    LET scores == RRFTable(result_lists, k)
    IN  Items(SortDesc([j \in 1..Len(scores) |-> <<0 - scores[j].score, scores[j].result>>]))

reciprocal_rank_fusion(result_lists, k) ==
    LET scores == RRFTable(result_lists, k)
    IN  Items(SortDesc([j \in 1..Len(scores) |-> <<scores[j].score, scores[j].result>>]))

----------------------------------------------------------------------------
(* Thorough mode: dedup, late-interaction scoring *)

\* thorough_search without the seen/unique_results loop
DedupNothing(results) == results

\* the seen/unique_results loop of thorough_search
DedupByText(results) ==
    Pick(results, {i \in 1..Len(results) :
                      \A j \in 1..(i - 1) : results[j].chunk_text # results[i].chunk_text})

\* split_into_sentences(text) is empty
NoSentences(sent, text) == sent[text] = <<>>

\* float(np.max(similarities))
RECURSIVE MaxOf(_)
MaxOf(s) == IF Len(s) = 1 THEN s[1] ELSE Max(s[1], MaxOf(Tail(s)))

\* parallel_multi_vector_search without its two [:k] slices
parallel_multi_vector_search_uncut(q, candidates, k, sent) ==
    IF \A i \in 1..Len(candidates) : NoSentences(sent, candidates[i].chunk_text)
    THEN candidates
    ELSE LET scores == [i \in 1..Len(candidates) |->
                          <<IF NoSentences(sent, candidates[i].chunk_text)
                            THEN 0 ELSE MaxOf(sent[candidates[i].chunk_text]),
                            candidates[i]>>]
             best   == SortDesc(scores)
         IN  [i \in 1..Len(best) |-> Stamp(best[i][2], "multi_vec_score", best[i][1])]

\* sent: text -> the cosines of its sentences with the query
parallel_multi_vector_search(q, candidates, k, sent) ==
    IF \A i \in 1..Len(candidates) : NoSentences(sent, candidates[i].chunk_text)
    THEN Take(candidates, k)
    ELSE LET scores == [i \in 1..Len(candidates) |->
                          <<IF NoSentences(sent, candidates[i].chunk_text)
                            THEN 0 ELSE MaxOf(sent[candidates[i].chunk_text]),
                            candidates[i]>>]
             best   == Take(SortDesc(scores), k)
         IN  [i \in 1..Len(best) |-> Stamp(best[i][2], "multi_vec_score", best[i][1])]

----------------------------------------------------------------------------
(* Pairwise rerank *)

\* rr: text -> the cross-encoder's score of (query, text)
rerank_with_cross_encoder(q, documents, k, rr) ==
    IF documents = <<>> THEN <<>>
    ELSE LET doc_scores == [i \in 1..Len(documents) |->
                              <<rr[documents[i].chunk_text], documents[i]>>]
             best       == Take(SortDesc(doc_scores), k)
         IN  [i \in 1..Len(best) |-> Stamp(best[i][2], "rerank_score", best[i][1])]

----------------------------------------------------------------------------
(* Diversity filter *)

\* cosine of the embeddings of two texts, in hundredths; sim gives it for
\* two different texts, and a text has cosine 1 with itself
Cosine(sim, t1, t2) == IF t1 = t2 THEN 100 ELSE sim[{t1, t2}]

\* the loop comparing a document with the last kept document only
RECURSIVE DiversityLoopLastOnly(_, _, _, _, _, _)
DiversityLoopLastOnly(documents, i, diverse_docs, threshold, max_results, sim) ==
    IF i > Len(documents) THEN diverse_docs
    ELSE LET last     == diverse_docs[Len(diverse_docs)]
             admitted == IF Cosine(sim, documents[i].chunk_text, last.chunk_text) < threshold
                         THEN Append(diverse_docs, documents[i])
                         ELSE diverse_docs
         IN  IF Len(admitted) >= max_results THEN admitted
             ELSE DiversityLoopLastOnly(documents, i + 1, admitted, threshold, max_results, sim)

\* the loop of apply_diversity_filter from index i (1-based) on
RECURSIVE DiversityLoop(_, _, _, _, _, _)
DiversityLoop(documents, i, diverse_docs, threshold, max_results, sim) ==
    IF i > Len(documents) THEN diverse_docs
    ELSE LET similarities == {Cosine(sim, documents[i].chunk_text,
                                     diverse_docs[j].chunk_text) :
                                 j \in 1..Len(diverse_docs)}
             admitted == IF \A s \in similarities : s < threshold
                         THEN Append(diverse_docs, documents[i])
                         ELSE diverse_docs
         IN  IF Len(admitted) >= max_results THEN admitted
             ELSE DiversityLoop(documents, i + 1, admitted, threshold, max_results, sim)

\* the filter admitting a document only when it is close to a kept one
RECURSIVE DiversityLoopInverted(_, _, _, _, _, _)
DiversityLoopInverted(documents, i, diverse_docs, threshold, max_results, sim) ==
    IF i > Len(documents) THEN diverse_docs
    ELSE LET similarities == {Cosine(sim, documents[i].chunk_text,
                                     diverse_docs[j].chunk_text) :
                                 j \in 1..Len(diverse_docs)}
             admitted == IF \E s \in similarities : s >= threshold
                         THEN Append(diverse_docs, documents[i])
                         ELSE diverse_docs
         IN  IF Len(admitted) >= max_results THEN admitted
             ELSE DiversityLoopInverted(documents, i + 1, admitted, threshold, max_results, sim)

apply_diversity_filter_inverted(documents, threshold, max_results, sim) ==
    IF Len(documents) <= 1 THEN documents
    ELSE DiversityLoopInverted(documents, 2, <<documents[1]>>, threshold, max_results, sim)

apply_diversity_filter(documents, threshold, max_results, sim) ==
    IF Len(documents) <= 1 THEN documents
    ELSE DiversityLoop(documents, 2, <<documents[1]>>, threshold, max_results, sim)

----------------------------------------------------------------------------
(* The corpus and the arguments of one call *)

\* chunk texts are numbered in order of first appearance: two rows may hold
\* the same text (the docs table has no uniqueness constraint on chunk_text)
TextNumbering(texts) ==
    \A i \in 1..Len(texts) :
        \E j \in 1..i : texts[j] = texts[i] /\ texts[i] <= Cardinality({texts[h] : h \in 1..(j - 1)}) + 1

Corpora ==
    UNION {
        {[i \in 1..n |-> Row(i, texts[i], i \in embedded)] :
            texts \in {t \in [1..n -> 1..n] : TextNumbering(t)},
            embedded \in SUBSET (1..n)}
        : n \in 0..MaxChunks}

Ids(rows) == {rows[i].id : i \in 1..Len(rows)}
TextsOf(docs) == {docs[i].chunk_text : i \in 1..Len(docs)}
IdsOf(docs) == {docs[i].id : i \in 1..Len(docs)}

Init ==
    /\ corpus \in Corpora
    /\ denseScore \in [Ids(corpus) -> ScoreLevels]
    /\ \A i \in 1..Len(corpus) : ~corpus[i].full => denseScore[corpus[i].id] = 0
    /\ bm25Score \in [Ids(corpus) -> ScoreLevels]
    /\ query \in Queries
    /\ top_k \in TopKs
    /\ mode \in ModeArgs
    /\ pc = "search"
    /\ variants = <<>>
    /\ fut = <<>>
    /\ all_results = <<>>
    /\ cands = <<>>
    /\ repeat = <<>>
    /\ result = <<>>
    /\ outcome = "running"
    /\ calls = [c \in CallKinds |-> 0]
    /\ diagnostics = 0
    /\ faults = 0
    /\ sims = <<>>
    /\ rrf_lists = <<>>
    /\ rrf_fused = <<>>
    /\ stage_in = <<>>
    /\ stage_out = <<>>
    /\ task_pc = <<>>
    /\ db_lock = 0

----------------------------------------------------------------------------
(* Futures *)

Future(variant, signal) ==
    [variant |-> variant, signal |-> signal, state |-> "pending", result |-> <<>>]

Finished(f) == f.state \in {"done", "failed"}
AllFinished == \A i \in 1..Len(fut) : Finished(fut[i])

\* made: collaborator kind -> number of calls just made
Called(made) ==
    [c \in CallKinds |-> calls[c] + (IF c \in DOMAIN made THEN made[c] ELSE 0)]

Return(value) ==
    /\ result' = value
    /\ outcome' = "returned"
    /\ pc' = "done"

Throw ==
    /\ outcome' = "raised"
    /\ pc' = "done"
    /\ UNCHANGED result

\* what a sub-search task does when it runs: a collaborator call may fail
\* (fault), otherwise the task returns what the sub-search computes
RunTask(f, k, fault) ==
    IF fault THEN Raise
    ELSE IF f.signal = "dense" THEN Ok(vector_search(f.variant, k))
    ELSE bm25_search(f.variant, k)

\* vector_search embeds the query and reads the store; bm25_search reads the
\* store and scores the rows it got
TaskCalls(f) ==
    IF f.signal = "dense" THEN [embed |-> 1, store |-> 1]
    ELSE [store |-> 1, bm25 |-> IF corpus = <<>> THEN 0 ELSE 1]

Settle(f, run) ==
    [f EXCEPT !.state = IF run.ok THEN "done" ELSE "failed", !.result = run.val]

Injected(fault) == faults' = faults + (IF fault THEN 1 ELSE 0)

----------------------------------------------------------------------------
(* search *)

\* search: the dispatch on mode; standard_search submits its two tasks
Search ==
    /\ pc = "search"
    /\ pc' = CASE mode = "fast" -> "fast_search"
               [] mode = "standard" -> "standard_fanout"
               [] OTHER -> "enhance"
    /\ fut' = IF mode = "standard"
              THEN <<Future(1, "dense"), Future(1, "bm25")>> ELSE <<>>
    /\ UNCHANGED <<inputs, direct, pool, variants, all_results, cands, repeat, result,
                   outcome, calls, diagnostics, faults, sims>>

\* fast_search running the lexical search next to the dense one
FastSearchWithLexical ==
    /\ pc = "fast_search"
    /\ \E fault \in BOOLEAN :
          LET run  == RunTask(Future(1, "dense"), top_k, fault)
              also == RunTask(Future(1, "bm25"), top_k, fault)
          IN  /\ IF run.ok /\ also.ok THEN Return(run.val) ELSE Throw
              /\ Injected(fault)
    /\ calls' = Called([embed |-> 1, store |-> 2, bm25 |-> IF corpus = <<>> THEN 0 ELSE 1])
    /\ UNCHANGED <<inputs, direct, pool, variants, fut, all_results, cands, repeat,
                   diagnostics, sims>>

\* fast_search: one vector_search with k = top_k
FastSearch ==
    /\ pc = "fast_search"
    /\ \E fault \in BOOLEAN :
          LET run == RunTask(Future(1, "dense"), top_k, fault)
          IN  /\ IF run.ok THEN Return(run.val) ELSE Throw
              /\ Injected(fault)
    /\ calls' = Called(TaskCalls(Future(1, "dense")))
    /\ UNCHANGED <<inputs, direct, pool, variants, fut, all_results, cands, repeat,
                   diagnostics, sims>>

\* one of the two pool tasks of standard_search finishes
StandardTask(i) ==
    /\ pc = "standard_fanout"
    /\ fut[i].state = "pending"
    /\ \E fault \in BOOLEAN :
          /\ fut' = [fut EXCEPT ![i] = Settle(fut[i], RunTask(fut[i], StandardSearchK, fault))]
          /\ Injected(fault)
    /\ calls' = Called(TaskCalls(fut[i]))
    /\ UNCHANGED <<inputs, direct, pool, pc, variants, all_results, cands, repeat, result,
                   outcome, diagnostics, sims>>

\* future_vector.result(), future_bm25.result() and the exit of the with
\* block, which waits for both tasks: result() re-raises a task's exception.
\* Then the fusion of the two lists.
StandardJoin ==
    /\ pc = "standard_fanout"
    /\ AllFinished
    /\ IF fut[1].state = "failed" \/ fut[2].state = "failed"
       THEN Throw /\ UNCHANGED cands
       ELSE /\ cands' = reciprocal_rank_fusion(<<fut[1].result, fut[2].result>>, RRF_K)
            /\ pc' = "standard_rerank"
            /\ UNCHANGED <<result, outcome>>
    /\ UNCHANGED <<inputs, direct, pool, variants, fut, all_results, repeat, calls,
                   diagnostics, faults, sims>>

\* the rerank of combined[:15] and the return of standard_search
StandardRerank ==
    /\ pc = "standard_rerank"
    /\ \E rr \in [TextsOf(cands) -> RerankLevels] :
          Return(rerank_with_cross_encoder(query, Take(cands, StandardRerankN), top_k, rr))
    /\ calls' = Called([rerank |-> IF cands = <<>> THEN 0 ELSE 1])
    /\ UNCHANGED <<inputs, direct, pool, variants, fut, all_results, cands, repeat,
                   diagnostics, faults, sims>>

----------------------------------------------------------------------------
(* thorough_search *)

\* all_queries[:5], each with a dense and a lexical task, in submission order
Submitted(all_queries) ==
    LET used == Take(all_queries, FanoutVariants)
    IN  [i \in 1..(2 * Len(used)) |->
            Future(used[(i + 1) \div 2], IF i % 2 = 1 THEN "dense" ELSE "bm25")]

\* stage 1: the three enhancement tasks and their result() calls, then the
\* submission of the retrieval tasks.  n is the number of distinct variants
\* the query processor yields: at least the root query and the hypothetical
\* document, at most 7.
Enhance ==
    /\ pc = "enhance"
    /\ \E fault \in BOOLEAN :
          /\ IF fault
             THEN Throw /\ UNCHANGED <<variants, fut>>
             ELSE \E n \in 2..Min(MaxVariants, VariantCap) :
                     /\ variants' = [v \in 1..n |-> v]
                     /\ fut' = Submitted([v \in 1..n |-> v])
                     /\ pc' = "fanout"
                     /\ UNCHANGED <<result, outcome>>
          /\ Injected(fault)
    /\ calls' = Called([enhance |-> 3])
    /\ UNCHANGED <<inputs, direct, pool, all_results, cands, repeat, diagnostics, sims>>

\* the collection loop without its try/except: future.result() re-raises
ThoroughTaskRaises(i) ==
    /\ pc = "fanout"
    /\ fut[i].state = "pending"
    /\ \E fault \in BOOLEAN :
          LET run == RunTask(fut[i], ThoroughSearchK, fault)
          IN  /\ fut' = [fut EXCEPT ![i] = Settle(fut[i], run)]
              /\ all_results' = IF run.ok THEN all_results \o run.val ELSE all_results
              /\ IF run.ok THEN UNCHANGED <<pc, result, outcome>> ELSE Throw
              /\ UNCHANGED diagnostics
              /\ Injected(fault)
    /\ calls' = Called(TaskCalls(fut[i]))
    /\ UNCHANGED <<inputs, direct, pool, variants, cands, repeat, sims>>

\* a retrieval task finishes and as_completed yields its future: its results
\* are appended to all_results, its exception is printed and dropped
ThoroughTask(i) ==
    /\ pc = "fanout"
    /\ fut[i].state = "pending"
    /\ \E fault \in BOOLEAN :
          LET run == RunTask(fut[i], ThoroughSearchK, fault)
          IN  /\ fut' = [fut EXCEPT ![i] = Settle(fut[i], run)]
              /\ all_results' = IF run.ok THEN all_results \o run.val ELSE all_results
              /\ diagnostics' = IF run.ok THEN diagnostics ELSE diagnostics + 1
              /\ Injected(fault)
    /\ calls' = Called(TaskCalls(fut[i]))
    /\ UNCHANGED <<inputs, direct, pool, pc, variants, cands, repeat, result, outcome, sims>>

\* the results of the tasks that succeeded, in submission order
InSubmissionOrder(futures) ==
    Concat([i \in 1..Len(futures) |->
              IF futures[i].state = "done" THEN futures[i].result ELSE <<>>])

\* the end of the with block, which waits for every task, and the dedup loop
Dedup ==
    /\ pc = "fanout"
    /\ AllFinished
    /\ cands' = DedupByText(all_results)
    /\ repeat' = DedupByText(InSubmissionOrder(fut))
    /\ pc' = "multi_vector"
    /\ UNCHANGED <<inputs, direct, pool, variants, fut, all_results, result, outcome,
                   calls, diagnostics, faults, sims>>

\* stage 3: parallel_multi_vector_search(query, unique_results[:50], k=30);
\* the embedder is called for the query and, when there is a sentence, once
\* for all sentences
MultiVector ==
    /\ pc = "multi_vector"
    /\ \E sent \in [TextsOf(cands) \cup TextsOf(repeat) -> SentenceSims] :
          /\ cands' = parallel_multi_vector_search(query, Take(cands, MultiVecInput), MultiVecK, sent)
          /\ repeat' = parallel_multi_vector_search(query, Take(repeat, MultiVecInput), MultiVecK, sent)
          /\ calls' = Called([embed |->
                               IF \A t \in TextsOf(Take(cands, MultiVecInput)) : NoSentences(sent, t)
                               THEN 1 ELSE 2])
    /\ pc' = "rerank"
    \* the futures and all_results are not read after the dedup
    /\ fut' = <<>>
    /\ all_results' = <<>>
    /\ UNCHANGED <<inputs, direct, pool, variants, result, outcome, diagnostics, faults, sims>>

\* stage 4: rerank_with_cross_encoder(query, multi_vec_results, top_k=20)
Rerank ==
    /\ pc = "rerank"
    /\ \E rr \in [TextsOf(cands) \cup TextsOf(repeat) -> RerankLevels] :
          /\ cands' = rerank_with_cross_encoder(query, cands, ThoroughRerankK, rr)
          /\ repeat' = rerank_with_cross_encoder(query, repeat, ThoroughRerankK, rr)
    /\ calls' = Called([rerank |-> IF cands = <<>> THEN 0 ELSE 1])
    /\ pc' = "diversity"
    /\ UNCHANGED <<inputs, direct, pool, variants, fut, all_results, result, outcome,
                   diagnostics, faults, sims>>

Pairs(S) == {{a, b} : a \in S, b \in S} \ {{a} : a \in S}

\* stage 5: apply_diversity_filter(reranked, 0.85, top_k) and the return
Diversity ==
    /\ pc = "diversity"
    /\ \E sim \in [Pairs(TextsOf(cands) \cup TextsOf(repeat)) -> SimLevels] :
          /\ Return(apply_diversity_filter(cands, DiversityThreshold, top_k, sim))
          /\ repeat' = apply_diversity_filter(repeat, DiversityThreshold, top_k, sim)
          /\ sims' = sim
    /\ calls' = Called([embed |-> IF Len(cands) <= 1 THEN 0 ELSE 1])
    /\ UNCHANGED <<inputs, direct, pool, variants, fut, all_results, cands, diagnostics, faults>>

Next ==
    \/ Search
    \/ FastSearch
    \/ \E i \in 1..Len(fut) : StandardTask(i)
    \/ StandardJoin
    \/ StandardRerank
    \/ Enhance
    \/ \E i \in 1..Len(fut) : ThoroughTask(i)
    \/ Dedup
    \/ MultiVector
    \/ Rerank
    \/ Diversity

Spec == Init /\ [][Next]_vars

----------------------------------------------------------------------------
(* One specification per mode: the calls of that mode, over every corpus *)

InitFast == Init /\ mode = "fast"
NextFast == Search \/ FastSearch
SpecFast == InitFast /\ [][NextFast]_vars

InitStandard == Init /\ mode = "standard"
NextStandard ==
    \/ Search
    \/ \E i \in 1..Len(fut) : StandardTask(i)
    \/ StandardJoin
    \/ StandardRerank
SpecStandard == InitStandard /\ [][NextStandard]_vars

InitThorough == Init /\ mode = "thorough"
NextThorough ==
    \/ Search
    \/ Enhance
    \/ \E i \in 1..Len(fut) : ThoroughTask(i)
    \/ Dedup
    \/ MultiVector
    \/ Rerank
    \/ Diversity
SpecThorough == InitThorough /\ [][NextThorough]_vars

\* every call on an empty corpus
InitEmptyCorpus == Init /\ corpus = <<>>
SpecEmptyCorpus == InitEmptyCorpus /\ [][Next]_vars

----------------------------------------------------------------------------
(* The fan-outs step by step.  A pool task is queued at submit, is started  *)
(* by a free worker thread, and then walks through its sub-search:          *)
(*   dense:   embed the query; take db_lock; read the store and release;    *)
(*            compute the cosines and sort                                  *)
(*   lexical: take db_lock; read the store and release; score with BM25     *)
(* The controller thread waits in result() (standard), in as_completed      *)
(* (thorough) and at the exit of the with block, which joins the pool.      *)

MaxPoolVariants == 3

\* ParallelAdvancedRetriever(max_workers=4); standard_search uses a pool of 2
max_workers == 4
StandardWorkers == 2

Workers == IF mode = "standard" THEN StandardWorkers ELSE max_workers

Tasks == 1..Len(task_pc)
Running == {i \in Tasks : task_pc[i] \in {"embed", "acquire", "store", "compute"}}
Over == {i \in Tasks : task_pc[i] \in {"finished", "yielded"}}

\* search, standard_search up to its two submits
PoolSearch ==
    /\ pc = "search"
    /\ IF mode = "standard"
       THEN /\ fut' = <<Future(1, "dense"), Future(1, "bm25")>>
            /\ task_pc' = <<"queued", "queued">>
            /\ pc' = "result_vector"
       ELSE /\ pc' = "pool_enhance"
            /\ UNCHANGED <<fut, task_pc>>
    /\ UNCHANGED <<inputs, direct, db_lock, variants, all_results, cands, repeat, result,
                   outcome, calls, diagnostics, faults, sims>>

\* thorough_search stage 1 and the submits of stage 2
PoolEnhance ==
    /\ pc = "pool_enhance"
    /\ \E fault \in BOOLEAN :
          /\ IF fault
             THEN Throw /\ UNCHANGED <<variants, fut, task_pc>>
             ELSE \E n \in 2..Min(MaxPoolVariants, VariantCap) :
                     /\ variants' = [v \in 1..n |-> v]
                     /\ fut' = Submitted([v \in 1..n |-> v])
                     /\ task_pc' = [i \in 1..Len(Submitted([v \in 1..n |-> v])) |-> "queued"]
                     /\ pc' = "collect"
                     /\ UNCHANGED <<result, outcome>>
          /\ Injected(fault)
    /\ calls' = Called([enhance |-> 3])
    /\ UNCHANGED <<inputs, direct, db_lock, all_results, cands, repeat, diagnostics, sims>>

\* a worker thread takes the oldest queued work item without a worker limit
TaskStartUnlimited(i) ==
    /\ i \in Tasks
    /\ task_pc[i] = "queued"
    /\ \A j \in 1..(i - 1) : task_pc[j] # "queued"
    /\ task_pc' = [task_pc EXCEPT ![i] = IF fut[i].signal = "dense" THEN "embed" ELSE "acquire"]
    /\ UNCHANGED <<inputs, direct, db_lock, pc, variants, fut, all_results, cands, repeat,
                   result, outcome, calls, diagnostics, faults, sims>>

\* a worker thread takes the oldest queued work item; the pool has Workers
\* threads
TaskStart(i) ==
    /\ i \in Tasks
    /\ task_pc[i] = "queued"
    /\ \A j \in 1..(i - 1) : task_pc[j] # "queued"
    /\ Cardinality(Running) < Workers
    /\ task_pc' = [task_pc EXCEPT ![i] = IF fut[i].signal = "dense" THEN "embed" ELSE "acquire"]
    /\ UNCHANGED <<inputs, direct, db_lock, pc, variants, fut, all_results, cands, repeat,
                   result, outcome, calls, diagnostics, faults, sims>>

\* the k a task of this fan-out was submitted with
TaskK == IF mode = "standard" THEN StandardSearchK ELSE ThoroughSearchK

\* the task ends with the exception of a failed call
TaskFails(i) ==
    /\ task_pc' = [task_pc EXCEPT ![i] = "finished"]
    /\ fut' = [fut EXCEPT ![i] = Settle(fut[i], Raise)]

\* vector_search: self.embedder.encode([query]), before the lock is taken
TaskEmbed(i) ==
    /\ i \in Tasks
    /\ task_pc[i] = "embed"
    /\ \E fault \in BOOLEAN :
          /\ IF fault THEN TaskFails(i)
             ELSE task_pc' = [task_pc EXCEPT ![i] = "acquire"] /\ UNCHANGED fut
          /\ Injected(fault)
    /\ calls' = Called([embed |-> 1])
    /\ UNCHANGED <<inputs, direct, db_lock, pc, variants, all_results, cands, repeat,
                   result, outcome, diagnostics, sims>>

\* entering "with self.db_lock" whether or not the lock is free
TaskAcquireNoLock(i) ==
    /\ i \in Tasks
    /\ task_pc[i] = "acquire"
    /\ db_lock' = i
    /\ task_pc' = [task_pc EXCEPT ![i] = "store"]
    /\ UNCHANGED <<inputs, direct, pc, variants, fut, all_results, cands, repeat, result,
                   outcome, calls, diagnostics, faults, sims>>

\* with self.db_lock: the task blocks until the lock is free
TaskAcquire(i) ==
    /\ i \in Tasks
    /\ task_pc[i] = "acquire"
    /\ db_lock = 0
    /\ db_lock' = i
    /\ task_pc' = [task_pc EXCEPT ![i] = "store"]
    /\ UNCHANGED <<inputs, direct, pc, variants, fut, all_results, cands, repeat, result,
                   outcome, calls, diagnostics, faults, sims>>

\* the store read with acquire() and release() around it instead of the with
\* block: an exception skips the release
TaskReadKeepsLock(i) ==
    /\ i \in Tasks
    /\ task_pc[i] = "store"
    /\ \E fault \in BOOLEAN :
          /\ db_lock' = IF fault THEN db_lock ELSE 0
          /\ IF fault THEN TaskFails(i)
             ELSE IF fut[i].signal = "bm25" /\ corpus = <<>>
             THEN /\ task_pc' = [task_pc EXCEPT ![i] = "finished"]
                  /\ fut' = [fut EXCEPT ![i] = Settle(fut[i], Ok(<<>>))]
             ELSE task_pc' = [task_pc EXCEPT ![i] = "compute"] /\ UNCHANGED fut
          /\ Injected(fault)
    /\ calls' = Called([store |-> 1])
    /\ UNCHANGED <<inputs, direct, pc, variants, all_results, cands, repeat, result,
                   outcome, diagnostics, sims>>

\* connect, execute, fetchall, close and the end of the with block, which
\* releases the lock also when a call inside raised; bm25_search returns []
\* at once when it fetched no row
TaskRead(i) ==
    /\ i \in Tasks
    /\ task_pc[i] = "store"
    /\ db_lock' = 0
    /\ \E fault \in BOOLEAN :
          /\ IF fault THEN TaskFails(i)
             ELSE IF fut[i].signal = "bm25" /\ corpus = <<>>
             THEN /\ task_pc' = [task_pc EXCEPT ![i] = "finished"]
                  /\ fut' = [fut EXCEPT ![i] = Settle(fut[i], Ok(<<>>))]
             ELSE task_pc' = [task_pc EXCEPT ![i] = "compute"] /\ UNCHANGED fut
          /\ Injected(fault)
    /\ calls' = Called([store |-> 1])
    /\ UNCHANGED <<inputs, direct, pc, variants, all_results, cands, repeat, result,
                   outcome, diagnostics, sims>>

\* after the lock: the cosines and the sort of vector_search, the BM25 index,
\* scores and top-k of bm25_search; the task returns its list
TaskCompute(i) ==
    /\ i \in Tasks
    /\ task_pc[i] = "compute"
    /\ task_pc' = [task_pc EXCEPT ![i] = "finished"]
    /\ fut' = [fut EXCEPT ![i] = Settle(fut[i], RunTask(fut[i], TaskK, FALSE))]
    /\ calls' = Called([bm25 |-> IF fut[i].signal = "bm25" THEN 1 ELSE 0])
    /\ UNCHANGED <<inputs, direct, db_lock, pc, variants, all_results, cands, repeat,
                   result, outcome, diagnostics, faults, sims>>

\* vector_results = future_vector.result(): blocks until the task is over and
\* re-raises its exception, which leaves the with block
ResultVector ==
    /\ pc = "result_vector"
    /\ Finished(fut[1])
    /\ pc' = IF fut[1].state = "failed" THEN "exit_raise" ELSE "result_bm25"
    /\ UNCHANGED <<inputs, direct, pool, variants, fut, all_results, cands, repeat, result,
                   outcome, calls, diagnostics, faults, sims>>

\* bm25_results = future_bm25.result()
ResultBM25 ==
    /\ pc = "result_bm25"
    /\ Finished(fut[2])
    /\ pc' = IF fut[2].state = "failed" THEN "exit_raise" ELSE "exit_with"
    /\ UNCHANGED <<inputs, direct, pool, variants, fut, all_results, cands, repeat, result,
                   outcome, calls, diagnostics, faults, sims>>

\* the exit of the with block without the join of the pool
ExitPoolNoWait ==
    /\ pc \in {"exit_with", "exit_raise"}
    /\ IF pc = "exit_raise"
       THEN Throw /\ UNCHANGED cands
       ELSE /\ cands' = reciprocal_rank_fusion(<<fut[1].result, fut[2].result>>, RRF_K)
            /\ pc' = "standard_rerank"
            /\ UNCHANGED <<result, outcome>>
    /\ UNCHANGED <<inputs, direct, pool, variants, fut, all_results, repeat, calls,
                   diagnostics, faults, sims>>

\* the exit of the with block of standard_search: shutdown(wait=True) returns
\* when every task is over; then the pending exception goes on to the caller,
\* or the two lists are fused
ExitPool ==
    /\ pc \in {"exit_with", "exit_raise"}
    /\ Over = Tasks
    /\ IF pc = "exit_raise"
       THEN Throw /\ UNCHANGED cands
       ELSE /\ cands' = reciprocal_rank_fusion(<<fut[1].result, fut[2].result>>, RRF_K)
            /\ pc' = "standard_rerank"
            /\ UNCHANGED <<result, outcome>>
    /\ UNCHANGED <<inputs, direct, pool, variants, fut, all_results, repeat, calls,
                   diagnostics, faults, sims>>

\* as_completed yields a task that is over: its list is appended to
\* all_results, its exception is printed and dropped
Yield(i) ==
    /\ pc = "collect"
    /\ i \in Tasks
    /\ task_pc[i] = "finished"
    /\ task_pc' = [task_pc EXCEPT ![i] = "yielded"]
    /\ all_results' = IF fut[i].state = "done" THEN all_results \o fut[i].result
                      ELSE all_results
    /\ diagnostics' = IF fut[i].state = "done" THEN diagnostics ELSE diagnostics + 1
    /\ UNCHANGED <<inputs, direct, db_lock, pc, variants, fut, cands, repeat, result,
                   outcome, calls, faults, sims>>

\* the dedup started as soon as one task has been collected
ExitFanoutFirstCompleted ==
    /\ pc = "collect"
    /\ \E i \in Tasks : task_pc[i] = "yielded"
    /\ cands' = DedupByText(all_results)
    /\ repeat' = DedupByText(InSubmissionOrder(fut))
    /\ pc' = "multi_vector"
    /\ UNCHANGED <<inputs, direct, pool, variants, fut, all_results, result, outcome,
                   calls, diagnostics, faults, sims>>

\* as_completed is exhausted when every task has been yielded; the with block
\* ends and the dedup loop runs
ExitFanout ==
    /\ pc = "collect"
    /\ \A i \in Tasks : task_pc[i] = "yielded"
    /\ cands' = DedupByText(all_results)
    /\ repeat' = DedupByText(InSubmissionOrder(fut))
    /\ pc' = "multi_vector"
    /\ UNCHANGED <<inputs, direct, pool, variants, fut, all_results, result, outcome,
                   calls, diagnostics, faults, sims>>

\* the calls of standard and thorough mode on a store of at most one chunk
InitPool ==
    /\ Init
    /\ mode \in {"standard", "thorough"}
    /\ query = "q"
    /\ top_k = 1
    /\ Len(corpus) <= 1
    /\ \A i \in 1..Len(corpus) : denseScore[corpus[i].id] = 0 /\ bm25Score[corpus[i].id] = 0

NextPool ==
    \/ PoolSearch
    \/ PoolEnhance
    \/ \E i \in Tasks : TaskStart(i)
    \/ \E i \in Tasks : TaskEmbed(i)
    \/ \E i \in Tasks : TaskAcquire(i)
    \/ \E i \in Tasks : TaskRead(i)
    \/ \E i \in Tasks : TaskCompute(i)
    \/ ResultVector
    \/ ResultBM25
    \/ ExitPool
    \/ \E i \in Tasks : Yield(i)
    \/ ExitFanout
    \/ StandardRerank
    \/ MultiVector
    \/ Rerank
    \/ Diversity

SpecPool == InitPool /\ [][NextPool]_vars

\* The same calls under fair scheduling: as long as the controller or a
\* worker thread can take a step, one of them does.  The fan-out of thorough
\* mode is taken with two variants.
MaxFairTasks == 4

NextPoolFair ==
    \/ PoolSearch
    \/ PoolEnhance /\ Len(fut') <= MaxFairTasks
    \/ \E i \in Tasks : TaskStart(i)
    \/ \E i \in Tasks : TaskEmbed(i)
    \/ \E i \in Tasks : TaskAcquire(i)
    \/ \E i \in Tasks : TaskRead(i)
    \/ \E i \in Tasks : TaskCompute(i)
    \/ ResultVector
    \/ ResultBM25
    \/ ExitPool
    \/ \E i \in Tasks : Yield(i)
    \/ ExitFanout
    \/ StandardRerank
    \/ MultiVector
    \/ Rerank
    \/ Diversity

SpecPoolFair == InitPool /\ [][NextPoolFair]_vars /\ WF_vars(NextPoolFair)

----------------------------------------------------------------------------
(* A direct call of reciprocal_rank_fusion on lists of hits.  The hits of   *)
(* one list are different chunks; two chunks may hold the same text.        *)

MaxFuseLen == 3
FuseLists == 2

\* the lists without a repeated chunk over the chunks 1..n
RankedLists(n) ==
    UNION {{l \in [1..m -> 1..n] : \A i, j \in 1..m : l[i] = l[j] => i = j} : m \in 0..n}

\* the texts of the chunks 1..n
ChunkTexts(n) == {t \in [1..n -> 1..n] : TextNumbering(t)}

\* the hits of the chunk lists ls, the chunks holding the given texts
RRFInput(ls, texts) ==
    [l \in 1..Len(ls) |->
        [r \in 1..Len(ls[l]) |->
            Hit(Row(ls[l][r], texts[ls[l][r]], TRUE), 0)]]

InitRRF ==
    /\ corpus = <<>>
    /\ denseScore = <<>>
    /\ bm25Score = <<>>
    /\ query = "q"
    /\ top_k = 1
    /\ mode = "standard"
    /\ pc = "fuse"
    /\ variants = <<>>
    /\ fut = <<>>
    /\ all_results = <<>>
    /\ cands = <<>>
    /\ repeat = <<>>
    /\ result = <<>>
    /\ outcome = "running"
    /\ calls = [c \in CallKinds |-> 0]
    /\ diagnostics = 0
    /\ faults = 0
    /\ sims = <<>>
    /\ \E c \in 1..FuseLists :
          \E ls \in [1..c -> RankedLists(MaxFuseLen)], texts \in ChunkTexts(MaxFuseLen) :
              rrf_lists = RRFInput(ls, texts)
    /\ rrf_fused = <<>>
    /\ stage_in = <<>>
    /\ stage_out = <<>>
    /\ task_pc = <<>>
    /\ db_lock = 0

Fuse ==
    /\ pc = "fuse"
    /\ rrf_fused' = reciprocal_rank_fusion(rrf_lists, RRF_K)
    /\ pc' = "fused"
    /\ UNCHANGED <<inputs, variants, fut, all_results, cands, repeat, result, outcome,
                   calls, diagnostics, faults, sims, rrf_lists, stage_in, stage_out,
                   pool>>

SpecRRF == InitRRF /\ [][Fuse]_vars

----------------------------------------------------------------------------
(* Direct calls of the diversity filter and of late-interaction scoring on  *)
(* a list of hits; two hits may hold the same text.                         *)

MaxDocs == 3

Thresholds == {50, 85, 86, 101}

\* the lists of n hits, chunk i holding texts[i]
HitList(texts) ==
    [i \in 1..Len(texts) |-> Hit(Row(i, texts[i], TRUE), 0)]

\* no search is running
NoSearch ==
    /\ corpus = <<>>
    /\ denseScore = <<>>
    /\ bm25Score = <<>>
    /\ query = "q"
    /\ top_k = 1
    /\ mode = "thorough"
    /\ variants = <<>>
    /\ fut = <<>>
    /\ all_results = <<>>
    /\ cands = <<>>
    /\ repeat = <<>>
    /\ result = <<>>
    /\ outcome = "running"
    /\ calls = [c \in CallKinds |-> 0]
    /\ diagnostics = 0
    /\ faults = 0
    /\ sims = <<>>
    /\ rrf_lists = <<>>
    /\ rrf_fused = <<>>
    /\ stage_out = <<>>
    /\ task_pc = <<>>
    /\ db_lock = 0

InitDiversity ==
    /\ NoSearch
    /\ pc = "filter"
    /\ \E n \in 0..MaxDocs :
          \E texts \in ChunkTexts(n) :
             \E sim \in [Pairs({texts[i] : i \in 1..n}) -> SimLevels],
                threshold \in Thresholds, max_results \in TopKs :
                   stage_in = [documents |-> HitList(texts), threshold |-> threshold,
                               max_results |-> max_results, sim |-> sim]

\* apply_diversity_filter(documents, threshold, max_results)
Filter ==
    /\ pc = "filter"
    /\ stage_out' = apply_diversity_filter(stage_in.documents, stage_in.threshold,
                                           stage_in.max_results, stage_in.sim)
    /\ pc' = "filtered"
    /\ UNCHANGED <<inputs, pool, variants, fut, all_results, cands, repeat, result,
                   outcome, calls, diagnostics, faults, sims, rrf_lists, rrf_fused,
                   stage_in>>

SpecDiversity == InitDiversity /\ [][Filter]_vars

InitMultiVector ==
    /\ NoSearch
    /\ pc = "score"
    /\ \E n \in 0..MaxDocs :
          \E texts \in ChunkTexts(n) :
             \E sent \in [{texts[i] : i \in 1..n} -> SentenceSims], k \in TopKs :
                stage_in = [candidates |-> HitList(texts), k |-> k, sent |-> sent]

\* parallel_multi_vector_search(query, candidates, k)
Score ==
    /\ pc = "score"
    /\ stage_out' = parallel_multi_vector_search(query, stage_in.candidates,
                                                 stage_in.k, stage_in.sent)
    /\ pc' = "scored"
    /\ UNCHANGED <<inputs, pool, variants, fut, all_results, cands, repeat, result,
                   outcome, calls, diagnostics, faults, sims, rrf_lists, rrf_fused,
                   stage_in>>

SpecMultiVector == InitMultiVector /\ [][Score]_vars

----------------------------------------------------------------------------
(* Stage 1 of thorough_search step by step: the three query-enhancement     *)
(* tasks of src/query_processor.py, the merge of their results into         *)
(* all_queries and the submission of the retrieval tasks.                   *)
(*                                                                          *)
(* A string is modelled by <<kind, n>>.  The query is given by what the     *)
(* query processor reads of it: the pieces the " and " split keeps, whether *)
(* it starts with a question word, the capitalized phrases found in it,     *)
(* whether it ends with '?', whether removing the question words changes    *)
(* it, whether a synonym is found for one of its words, and the text the    *)
(* template yields.                                                         *)

MaxParts == 2

SubQueryCap == 5
VariationCap == 5
EntityCap == 3
FocusKeywords == 2

Root == <<"query", 0>>
Hypothetical == <<"hypothetical", 0>>

\* the strings kind 1 .. kind n, two of them possibly equal
Strings(kind, n) == {[i \in 1..n |-> <<kind, t[i]>>] : t \in ChunkTexts(n)}

\* a capitalized phrase is a part of the query, or the whole of it
EntityLists == {<<Root>>} \cup UNION {Strings("entity", n) : n \in 0..EntityCap}

\* the filled template differs from the query, except for the one query
\* that the default template maps to itself
QueryShapes(n) ==
    [parts : UNION {Strings("part", m) : m \in 0..n},
     question_word : BOOLEAN,
     entities : EntityLists,
     question_mark : BOOLEAN,
     clean_query : BOOLEAN,
     synonym_query : BOOLEAN,
     hypothetical : {Hypothetical, Root}]

\* list(dict.fromkeys(s))
Uniq(s) == Pick(s, {i \in 1..Len(s) : \A j \in 1..(i - 1) : s[j] # s[i]})

\* what decompose_query collects before its dedup
sub_queries(q) ==
    <<Root>>
        \o q.parts
        \o (IF q.question_word
            THEN [i \in 1..FocusKeywords |-> <<"keyword", i>>] ELSE <<>>)
        \o Take(q.entities, EntityCap)

\* decompose_query without the [:5] slice
decompose_query_uncapped(q) == Uniq(sub_queries(q))

decompose_query(q) == Take(Uniq(sub_queries(q)), SubQueryCap)

\* what generate_search_variations collects before its dedup
variations(q) ==
    <<Root>>
        \o (IF q.question_mark THEN <<>> ELSE <<<<"what is", 0>>, <<"explain", 0>>>>)
        \o (IF q.clean_query THEN <<<<"clean", 0>>>> ELSE <<>>)
        \o (IF q.synonym_query THEN <<<<"synonym", 0>>>> ELSE <<>>)

generate_search_variations(q) == Take(Uniq(variations(q)), VariationCap)

create_hypothetical_document(q) == q.hypothetical

\* thorough_search, lines 116 and 117
all_queries(q, subs, search_variations, hypothetical_doc) ==
    Take(Uniq(<<Root>> \o subs \o search_variations \o <<hypothetical_doc>>), VariantCap)

EnhanceSignals == <<"decompose_query", "generate_search_variations",
                    "create_hypothetical_document">>

InitEnhance ==
    /\ corpus = <<>>
    /\ denseScore = <<>>
    /\ bm25Score = <<>>
    /\ query \in QueryShapes(MaxParts)
    /\ top_k = 1
    /\ mode = "thorough"
    /\ pc = "thorough_search"
    /\ variants = <<>>
    /\ fut = <<>>
    /\ all_results = <<>>
    /\ cands = <<>>
    /\ repeat = <<>>
    /\ result = <<>>
    /\ outcome = "running"
    /\ calls = [c \in CallKinds |-> 0]
    /\ diagnostics = 0
    /\ faults = 0
    /\ sims = <<>>
    /\ rrf_lists = <<>>
    /\ rrf_fused = <<>>
    /\ stage_in = <<>>
    /\ stage_out = <<>>
    /\ task_pc = <<>>
    /\ db_lock = 0

\* the three submits to the pool of 3
SubmitEnhancements ==
    /\ pc = "thorough_search"
    /\ fut' = [i \in 1..3 |-> Future(Root, EnhanceSignals[i])]
    /\ pc' = "future_sub"
    /\ UNCHANGED <<inputs, direct, pool, variants, all_results, cands, repeat, result,
                   outcome, calls, diagnostics, faults, sims>>

EnhanceValue(f) ==
    CASE f.signal = "decompose_query" -> decompose_query(query)
      [] f.signal = "generate_search_variations" -> generate_search_variations(query)
      [] OTHER -> <<create_hypothetical_document(query)>>

\* an enhancement task runs to its end: it returns its strings or raises
EnhanceTask(i) ==
    /\ pc \in {"future_sub", "future_var", "future_hyp", "enhance_raise"}
    /\ fut[i].state = "pending"
    /\ \E fault \in BOOLEAN :
          /\ fut' = [fut EXCEPT ![i] =
                        Settle(fut[i], IF fault THEN Raise ELSE Ok(EnhanceValue(fut[i])))]
          /\ Injected(fault)
    /\ calls' = Called([enhance |-> 1])
    /\ UNCHANGED <<inputs, direct, pool, pc, variants, all_results, cands, repeat,
                   result, outcome, diagnostics, sims>>

\* future_sub.result(), future_var.result(), future_hyp.result(): each waits
\* for its task and re-raises the task's exception
FutureResult(i, at, then) ==
    /\ pc = at
    /\ Finished(fut[i])
    /\ pc' = IF fut[i].state = "failed" THEN "enhance_raise" ELSE then
    /\ UNCHANGED <<inputs, direct, pool, variants, fut, all_results, cands, repeat,
                   result, outcome, calls, diagnostics, faults, sims>>

\* the exception leaves the with block, which waits for the three tasks, and
\* then thorough_search and search
EnhanceRaise ==
    /\ pc = "enhance_raise"
    /\ AllFinished
    /\ Throw
    /\ UNCHANGED <<inputs, direct, pool, variants, fut, all_results, cands, repeat,
                   calls, diagnostics, faults, sims>>

\* lines 116 and 117
MergeQueries ==
    /\ pc = "all_queries"
    /\ variants' = all_queries(query, fut[1].result, fut[2].result, fut[3].result[1])
    /\ pc' = "submit"
    /\ UNCHANGED <<inputs, direct, pool, fut, all_results, cands, repeat, result,
                   outcome, calls, diagnostics, faults, sims>>

\* the submits of stage 2
SubmitSearches ==
    /\ pc = "submit"
    /\ fut' = Submitted(variants)
    /\ pc' = "fanout"
    /\ UNCHANGED <<inputs, direct, pool, variants, all_results, cands, repeat, result,
                   outcome, calls, diagnostics, faults, sims>>

NextEnhance ==
    \/ SubmitEnhancements
    \/ \E i \in 1..Len(fut) : EnhanceTask(i)
    \/ FutureResult(1, "future_sub", "future_var")
    \/ FutureResult(2, "future_var", "future_hyp")
    \/ FutureResult(3, "future_hyp", "all_queries")
    \/ EnhanceRaise
    \/ MergeQueries
    \/ SubmitSearches

SpecEnhance == InitEnhance /\ [][NextEnhance]_vars

----------------------------------------------------------------------------
(* thorough_search on a store large enough for every cut of the pipeline to *)
(* take something away.  The collaborators answer by rule: for variant v    *)
(* the embedder favours one block of ten chunks and BM25 the next block, a  *)
(* text has the same sentence cosines as every other or as every second     *)
(* one, the cross-encoder alternates between two scores, and every two      *)
(* texts have the same cosine.  The retrieval tasks complete in submission  *)
(* order.  stage_in and stage_out list the argument and the return value of *)
(* each stage call, in call order.                                          *)

MaxRows == 52

\* rows 1..n, every row with a 'full' embedding; two neighbours may hold the
\* same text
LargeCorpus(n, paired) ==
    [i \in 1..n |-> Row(i, IF paired THEN (i + 1) \div 2 ELSE i, TRUE)]

DenseByRule(v) ==
    [id \in Ids(corpus) |-> IF (id - 1) \div ThoroughSearchK = 2 * (v - 1) THEN 1 ELSE 0]

LexicalByRule(v) ==
    [id \in Ids(corpus) |-> IF (id - 1) \div ThoroughSearchK = 2 * v - 1 THEN 1 ELSE 0]

SentencesByRule(texts) ==
    {[t \in texts |-> s] : s \in SentenceSims}
        \cup {[t \in texts |-> IF t % 2 = 0 THEN <<>> ELSE <<1>>]}

RerankByRule(texts) == [t \in texts |-> t % 2]

InitLarge ==
    /\ \E n \in 0..MaxRows, paired \in BOOLEAN : corpus = LargeCorpus(n, paired)
    /\ denseScore = <<>>
    /\ bm25Score = <<>>
    /\ query = "q"
    /\ top_k \in TopKs
    /\ mode = "thorough"
    /\ pc = "fanout"
    /\ variants = [v \in 1..FanoutVariants |-> v]
    /\ fut = Submitted([v \in 1..FanoutVariants |-> v])
    /\ all_results = <<>>
    /\ cands = <<>>
    /\ repeat = <<>>
    /\ result = <<>>
    /\ outcome = "running"
    /\ calls = [c \in CallKinds |-> 0]
    /\ diagnostics = 0
    /\ faults = 0
    /\ sims = <<>>
    /\ rrf_lists = <<>>
    /\ rrf_fused = <<>>
    /\ stage_in = <<>>
    /\ stage_out = <<>>
    /\ task_pc = <<>>
    /\ db_lock = 0

\* a retrieval task returns and as_completed yields it
LargeTask(i) ==
    /\ pc = "fanout"
    /\ fut[i].state = "pending"
    /\ \A j \in 1..(i - 1) : Finished(fut[j])
    /\ LET run == IF fut[i].signal = "dense"
                  THEN Ok(VectorRank(corpus, DenseByRule(fut[i].variant), ThoroughSearchK))
                  ELSE BM25Rank(corpus, LexicalByRule(fut[i].variant), ThoroughSearchK)
       IN  /\ fut' = [fut EXCEPT ![i] = Settle(fut[i], run)]
           /\ all_results' = all_results \o run.val
    /\ calls' = Called(TaskCalls(fut[i]))
    /\ UNCHANGED <<inputs, direct, pool, pc, variants, cands, repeat, result, outcome,
                   diagnostics, faults, sims>>

\* the stage call that took the argument arg and returned the value ret
StageCall(arg, ret) ==
    /\ stage_in' = Append(stage_in, arg)
    /\ stage_out' = Append(stage_out, ret)
    /\ UNCHANGED <<rrf_lists, rrf_fused>>

LargeDedup ==
    /\ pc = "fanout"
    /\ AllFinished
    /\ cands' = DedupByText(all_results)
    /\ StageCall(all_results, DedupByText(all_results))
    /\ pc' = "multi_vector"
    /\ UNCHANGED <<inputs, pool, variants, fut, all_results, repeat, result, outcome,
                   calls, diagnostics, faults, sims>>

LargeMultiVector ==
    /\ pc = "multi_vector"
    /\ \E sent \in SentencesByRule(TextsOf(cands)) :
          LET unique_results == Take(cands, MultiVecInput)
              scored == parallel_multi_vector_search(query, unique_results, MultiVecK, sent)
          IN  /\ cands' = scored
              /\ StageCall(unique_results, scored)
              /\ calls' = Called([embed |->
                                   IF \A t \in TextsOf(unique_results) : NoSentences(sent, t)
                                   THEN 1 ELSE 2])
    /\ pc' = "rerank"
    /\ UNCHANGED <<inputs, pool, variants, fut, all_results, repeat, result, outcome,
                   diagnostics, faults, sims>>

\* the rerank with one predict call per document
LargeRerankOneByOne ==
    /\ pc = "rerank"
    /\ LET reranked == rerank_with_cross_encoder(query, cands, ThoroughRerankK,
                                                 RerankByRule(TextsOf(cands)))
       IN  /\ cands' = reranked
           /\ StageCall(cands, reranked)
    /\ calls' = Called([rerank |-> Len(cands)])
    /\ pc' = "diversity"
    /\ UNCHANGED <<inputs, pool, variants, fut, all_results, repeat, result, outcome,
                   diagnostics, faults, sims>>

LargeRerank ==
    /\ pc = "rerank"
    /\ LET reranked == rerank_with_cross_encoder(query, cands, ThoroughRerankK,
                                                 RerankByRule(TextsOf(cands)))
       IN  /\ cands' = reranked
           /\ StageCall(cands, reranked)
    /\ calls' = Called([rerank |-> IF cands = <<>> THEN 0 ELSE 1])
    /\ pc' = "diversity"
    /\ UNCHANGED <<inputs, pool, variants, fut, all_results, repeat, result, outcome,
                   diagnostics, faults, sims>>

LargeDiversity ==
    /\ pc = "diversity"
    /\ \E level \in SimLevels :
          LET sim == [p \in Pairs(TextsOf(cands)) |-> level]
              final_results == apply_diversity_filter(cands, DiversityThreshold, top_k, sim)
          IN  /\ Return(final_results)
              /\ StageCall(cands, final_results)
    /\ calls' = Called([embed |-> IF Len(cands) <= 1 THEN 0 ELSE 1])
    /\ UNCHANGED <<inputs, pool, variants, fut, all_results, cands, repeat, diagnostics,
                   faults, sims>>

NextLarge ==
    \/ \E i \in 1..Len(fut) : LargeTask(i)
    \/ LargeDedup
    \/ LargeMultiVector
    \/ LargeRerank
    \/ LargeDiversity

SpecLarge == InitLarge /\ [][NextLarge]_vars

----------------------------------------------------------------------------
(* The rerank step of standard_search on a fused list longer than the      *)
(* rerank takes: one result per chunk of the store, every chunk with a text *)
(* of its own (the fusion keeps one result per text), the texts numbered    *)
(* upwards or downwards.  The cross-encoder prefers one text to all others, *)
(* or alternates.                                                           *)

MaxStandardRows == 18

RerankRules(texts) ==
    {[t \in texts |-> IF t = hot THEN 1 ELSE 0] : hot \in texts}
        \cup {RerankByRule(texts)}

InitLargeStandard ==
    /\ \E n \in 0..MaxStandardRows, reversed \in BOOLEAN :
          /\ corpus = LargeCorpus(n, FALSE)
          /\ cands = HitList([i \in 1..n |-> IF reversed THEN n + 1 - i ELSE i])
    /\ denseScore = DenseByRule(1)
    /\ bm25Score = LexicalByRule(1)
    /\ query = "q"
    /\ top_k \in TopKs
    /\ mode = "standard"
    /\ pc = "standard_rerank"
    /\ variants = <<>>
    /\ fut = <<>>
    /\ all_results = <<>>
    /\ repeat = <<>>
    /\ result = <<>>
    /\ outcome = "running"
    /\ calls = [c \in CallKinds |-> 0]
    /\ diagnostics = 0
    /\ faults = 0
    /\ sims = <<>>
    /\ rrf_lists = <<>>
    /\ rrf_fused = <<>>
    /\ stage_in = <<>>
    /\ stage_out = <<>>
    /\ task_pc = <<>>
    /\ db_lock = 0

\* the rerank of the whole fused list
LargeStandardRerankAll ==
    /\ pc = "standard_rerank"
    /\ \E rr \in RerankRules(TextsOf(cands)) :
          LET reranked == rerank_with_cross_encoder(query, cands, top_k, rr)
          IN  /\ Return(reranked)
              /\ StageCall([documents |-> Take(cands, StandardRerankN), top_k |-> top_k,
                            scores |-> rr], reranked)
    /\ calls' = Called([rerank |-> IF cands = <<>> THEN 0 ELSE 1])
    /\ UNCHANGED <<inputs, pool, variants, fut, all_results, cands, repeat, diagnostics,
                   faults, sims>>

\* the rerank of combined[:15] and the return of standard_search
LargeStandardRerank ==
    /\ pc = "standard_rerank"
    /\ \E rr \in RerankRules(TextsOf(cands)) :
          LET reranked == rerank_with_cross_encoder(query, Take(cands, StandardRerankN),
                                                    top_k, rr)
          IN  /\ Return(reranked)
              /\ StageCall([documents |-> Take(cands, StandardRerankN), top_k |-> top_k,
                            scores |-> rr], reranked)
    /\ calls' = Called([rerank |-> IF cands = <<>> THEN 0 ELSE 1])
    /\ UNCHANGED <<inputs, pool, variants, fut, all_results, cands, repeat, diagnostics,
                   faults, sims>>

SpecLargeStandard == InitLargeStandard /\ [][LargeStandardRerank]_vars

----------------------------------------------------------------------------
(* Properties of search *)

Modes == {"fast", "standard", "thorough"}
Returned == pc = "done" /\ outcome = "returned"
AllFull == \A i \in 1..Len(corpus) : corpus[i].full
DistinctTexts == \A i, j \in 1..Len(corpus) : corpus[i].text = corpus[j].text => i = j
FailedTasks == {i \in 1..Len(fut) : fut[i].state = "failed"}
DoneTasks == {i \in 1..Len(fut) : fut[i].state = "done"}

\* C1: in every mode and for every top_k >= 1 the returned list has at most
\* top_k elements.
C1_AtMostTopK ==
    (Returned /\ mode \in Modes /\ top_k >= 1) => Len(result) <= top_k

\* C2: in standard mode, when exactly one of the dense and the lexical task
\* raised, the call returns, and what it returns comes from the task that
\* survived.
C2_SurvivingBranch ==
    (mode = "standard" /\ pc = "done" /\ Cardinality(FailedTasks) = 1) =>
        /\ outcome = "returned"
        /\ \A i \in DoneTasks : IdsOf(result) \subseteq IdsOf(fut[i].result)

\* C3: in the thorough fan-out a task that raises is dropped with a printed
\* diagnostic and the call goes on; all_results holds exactly the results of
\* the tasks that succeeded; the dedup and the later stages run on them, and
\* once the fan-out is submitted the call returns.
C3_FailedTaskDropped ==
    /\ pc = "fanout" =>
          /\ outcome = "running"
          /\ diagnostics = Cardinality(FailedTasks)
          /\ Len(all_results) =
                SumSeq([i \in 1..Len(fut) |->
                          IF i \in DoneTasks THEN Len(fut[i].result) ELSE 0])
          /\ \A i \in DoneTasks : Range(fut[i].result) \subseteq Range(all_results)
    /\ pc = "multi_vector" =>
          /\ cands = DedupByText(all_results)
          /\ TextsOf(cands) = UNION {TextsOf(fut[i].result) : i \in DoneTasks}
    /\ pc \in {"multi_vector", "rerank", "diversity"} => outcome = "running"
    /\ (pc = "done" /\ variants # <<>>) =>
          /\ outcome = "returned"
          /\ IdsOf(result) \subseteq Ids(corpus)

\* a thorough call that dropped a failed task and still returned results
C3_Witness ==
    /\ mode = "thorough"
    /\ Returned
    /\ diagnostics >= 1
    /\ result # <<>>

\* C4: when every task of the retrieval fan-out raised, the call raises
\* instead of returning a list.
C4_TotalFailureRaises ==
    (pc = "done" /\ variants # <<>>
        /\ diagnostics = 2 * Min(Len(variants), FanoutVariants)) =>
        outcome = "raised"

\* C5: the chunks a thorough call returns (told apart by their text) are the
\* same as those of the same call, with the same corpus, query, top_k and
\* collaborator answers, whose tasks complete in submission order.
C5_OrderIndependent ==
    (mode = "thorough" /\ Returned /\ faults = 0 /\ top_k >= 1) =>
        TextsOf(result) = TextsOf(repeat)

\* C6: a call with top_k < 1, an unknown mode or an empty query does not
\* return, and makes no embedder, store, BM25, cross-encoder or enhancement
\* call.
C6_InvalidArgument ==
    (top_k < 1 \/ mode \notin Modes \/ query = "") =>
        /\ outcome # "returned"
        /\ \A c \in CallKinds : calls[c] = 0

\* C7: for a non-empty corpus whose chunks all have a 'full' embedding and
\* top_k >= 1, a fast call that returns gives exactly min(top_k, corpus size)
\* results.
C7_FastCount ==
    (mode = "fast" /\ Returned /\ corpus # <<>> /\ AllFull /\ top_k >= 1) =>
        Len(result) = Min(top_k, Len(corpus))

\* a fast call that cut a two-chunk corpus down to top_k = 1
C7_Witness ==
    /\ mode = "fast"
    /\ Returned
    /\ Len(corpus) = 2
    /\ AllFull
    /\ top_k = 1
    /\ Len(result) = 1

\* C8: with an empty corpus a call whose collaborators do not fail never
\* raises, every stage hands on an empty list, and the call returns the empty
\* list; rank fusion, late-interaction scoring, pairwise rerank and the
\* diversity filter each return the empty list for an empty input.
C8_EmptyCorpus ==
    corpus = <<>> =>
        /\ faults = 0 => outcome # "raised"
        /\ all_results = <<>>
        /\ cands = <<>>
        /\ Returned => result = <<>>
        /\ reciprocal_rank_fusion(<<<<>>, <<>>>>, RRF_K) = <<>>
        /\ parallel_multi_vector_search(query, <<>>, MultiVecK, <<>>) = <<>>
        /\ rerank_with_cross_encoder(query, <<>>, top_k, <<>>) = <<>>
        /\ apply_diversity_filter(<<>>, DiversityThreshold, top_k, <<>>) = <<>>

\* a thorough call on the empty corpus that ran its stages and returned []
C8_Witness ==
    /\ corpus = <<>>
    /\ mode = "thorough"
    /\ Returned
    /\ faults = 0
    /\ calls["embed"] >= 1
    /\ result = <<>>

\* C9 as stated: with fewer chunks than top_k, a thorough call in which
\* nothing failed returns exactly as many results as the corpus has chunks.
C9_ExactlyCorpusSize ==
    (mode = "thorough" /\ Returned /\ faults = 0 /\ Len(corpus) < top_k) =>
        Len(result) = Len(corpus)

\* C9 amended: with fewer chunks than top_k (and no more than a sub-search
\* returns), a thorough call returns at most as many results as the corpus
\* has chunks; it returns exactly that many when nothing failed, the texts
\* are pairwise different and every pairwise similarity is below the
\* threshold.
C9_CorpusSizeWhenDiverse ==
    (mode = "thorough" /\ Returned /\ Len(corpus) < top_k
        /\ Len(corpus) <= ThoroughSearchK) =>
        /\ Len(result) <= Len(corpus)
        /\ (faults = 0 /\ DistinctTexts
              /\ \A p \in DOMAIN sims : sims[p] < DiversityThreshold) =>
              Len(result) = Len(corpus)

\* two different, dissimilar chunks and top_k = 3: both are returned
C9_Witness ==
    /\ mode = "thorough"
    /\ Returned
    /\ faults = 0
    /\ Len(corpus) = 2
    /\ DistinctTexts
    /\ top_k = 3
    /\ \A p \in DOMAIN sims : sims[p] < DiversityThreshold
    /\ DOMAIN sims # {}
    /\ Len(result) = 2

\* C16: a fast call makes one dense search, on the query it was given, and
\* nothing else: no lexical search, no enhancement, no pool task, no fusion,
\* no rerank, no diversity filter.
C16_FastOneDenseSearch ==
    mode = "fast" =>
        /\ pc \in {"search", "fast_search", "done"}
        /\ variants = <<>> /\ fut = <<>> /\ all_results = <<>> /\ cands = <<>>
        /\ sims = <<>>
        /\ calls["bm25"] = 0 /\ calls["rerank"] = 0 /\ calls["enhance"] = 0
        /\ calls["embed"] <= 1 /\ calls["store"] <= 1
        /\ pc = "done" => calls["embed"] = 1
        /\ Returned => /\ calls["store"] = 1
                       /\ result = vector_search(query, top_k)
                       /\ \A i \in 1..Len(result) : DOMAIN result[i] = {"id", "source", "chunk_text", "metadata", "score"}

\* a fast call that returned two hits after one embedding and one store read
C16_Witness ==
    /\ mode = "fast"
    /\ Returned
    /\ Len(result) = 2
    /\ calls["embed"] = 1
    /\ calls["store"] = 1

----------------------------------------------------------------------------
(* Properties of reciprocal_rank_fusion *)

FusedTexts == UNION {TextsOf(rrf_lists[l]) : l \in 1..Len(rrf_lists)}
Positions(list, t) == {r \in 1..Len(list) : list[r].chunk_text = t}
FirstRank(list, t) == CHOOSE r \in Positions(list, t) : \A j \in Positions(list, t) : r <= j
Den == RRFDen(rrf_lists, RRF_K)

\* the terms 1/(RRF_K + r) of the ranks in R, over Den
RECURSIVE Terms(_)
Terms(R) ==
    IF R = {} THEN 0
    ELSE LET r == CHOOSE x \in R : TRUE
         IN  Den \div (RRF_K + r) + Terms(R \ {r})

\* C10 as stated: the score of a text is the sum over the lists of
\* 1/(60 + r), r its rank in the list, and 0 for a list without it.
C10_OneTermPerList ==
    pc = "fused" =>
        \A t \in FusedTexts :
            RRFScore(rrf_lists, RRF_K, t) =
                SumSeq([l \in 1..Len(rrf_lists) |->
                          IF Positions(rrf_lists[l], t) = {} THEN 0
                          ELSE Den \div (RRF_K + FirstRank(rrf_lists[l], t))])

\* C10 amended: the score of a text is the sum of 1/(60 + r) over every
\* position r at which a result with that text stands in a list, a list
\* without it adding 0; two single-item lists ranking one text first give it
\* 2/61; a text that stands once, in one list only, has that list's term;
\* the output holds each text once, by descending score.
C10_OneTermPerOccurrence ==
    pc = "fused" =>
        /\ \A t \in FusedTexts :
              /\ RRFScore(rrf_lists, RRF_K, t) =
                    SumSeq([l \in 1..Len(rrf_lists) |-> Terms(Positions(rrf_lists[l], t))])
              /\ (Len(rrf_lists) = 2 /\ Len(rrf_lists[1]) = 1 /\ Len(rrf_lists[2]) = 1
                    /\ TextsOf(rrf_lists[1]) = {t} /\ TextsOf(rrf_lists[2]) = {t}) =>
                    RRFScore(rrf_lists, RRF_K, t) * (RRF_K + 1) = 2 * Den
              /\ \A l \in 1..Len(rrf_lists) : \A r \in 1..Len(rrf_lists[l]) :
                    (/\ Positions(rrf_lists[l], t) = {r}
                     /\ \A m \in 1..Len(rrf_lists) : m # l => Positions(rrf_lists[m], t) = {}) =>
                        RRFScore(rrf_lists, RRF_K, t) * (RRF_K + r) = Den
        /\ TextsOf(rrf_fused) = FusedTexts
        /\ Len(rrf_fused) = Cardinality(FusedTexts)
        /\ \A i, j \in 1..Len(rrf_fused) :
              i < j => RRFScore(rrf_lists, RRF_K, rrf_fused[i].chunk_text)
                          >= RRFScore(rrf_lists, RRF_K, rrf_fused[j].chunk_text)

\* two lists fused, the first holding one text at two ranks
C10_Witness ==
    /\ pc = "fused"
    /\ Len(rrf_lists) = 2
    /\ rrf_lists[2] # <<>>
    /\ \E t \in FusedTexts :
          /\ Cardinality(Positions(rrf_lists[1], t)) = 2
          /\ Positions(rrf_lists[2], t) # {}
    /\ Len(rrf_fused) = 2

\* the place of the first result with text t: <<list, rank>>
FirstOccurrence(t) ==
    LET l == CHOOSE x \in 1..Len(rrf_lists) :
                /\ Positions(rrf_lists[x], t) # {}
                /\ \A y \in 1..(x - 1) : Positions(rrf_lists[y], t) = {}
    IN  <<l, FirstRank(rrf_lists[l], t)>>

Earlier(a, b) == a[1] < b[1] \/ (a[1] = b[1] /\ a[2] < b[2])

FusedScore(i) == RRFScore(rrf_lists, RRF_K, rrf_fused[i].chunk_text)

\* C11: the output of reciprocal_rank_fusion is in non-increasing score
\* order; of two entries with equal score the one whose text occurs first in
\* the input (earliest list, then earliest rank) comes first; an entry is the
\* result at the first occurrence of its text.
C11_SortedStable ==
    pc = "fused" =>
        /\ \A i, j \in 1..Len(rrf_fused) :
              i < j =>
                 /\ FusedScore(i) >= FusedScore(j)
                 /\ FusedScore(i) = FusedScore(j) =>
                       Earlier(FirstOccurrence(rrf_fused[i].chunk_text),
                               FirstOccurrence(rrf_fused[j].chunk_text))
        /\ \A i \in 1..Len(rrf_fused) :
              LET o == FirstOccurrence(rrf_fused[i].chunk_text)
              IN  rrf_fused[i] = rrf_lists[o[1]][o[2]]

\* two lists fused into entries of equal score
C11_Witness ==
    /\ pc = "fused"
    /\ Len(rrf_lists) = 2
    /\ \E i, j \in 1..Len(rrf_fused) : i < j /\ FusedScore(i) = FusedScore(j)
    /\ \E i, j \in 1..Len(rrf_fused) : i < j /\ FusedScore(i) > FusedScore(j)

\* C12: fusing [L, L] gives the candidates of fusing [L], in the same order.
C12_DuplicateLists ==
    (pc = "fused" /\ Len(rrf_lists) = 2 /\ rrf_lists[1] = rrf_lists[2]) =>
        rrf_fused = reciprocal_rank_fusion(<<rrf_lists[1]>>, RRF_K)

\* a list of three results fused with itself
C12_Witness ==
    /\ pc = "fused"
    /\ Len(rrf_lists) = 2
    /\ rrf_lists[1] = rrf_lists[2]
    /\ Len(rrf_lists[1]) = 3
    /\ Len(rrf_fused) >= 2

\* chunk A is first and chunk B second in both of two lists
FirstAndSecondAgree ==
    /\ Len(rrf_lists) = 2
    /\ Len(rrf_lists[1]) >= 2
    /\ Len(rrf_lists[2]) >= 2
    /\ rrf_lists[1][1].id = rrf_lists[2][1].id
    /\ rrf_lists[1][2].id = rrf_lists[2][2].id

APrecedesB ==
    \E i, j \in 1..Len(rrf_fused) :
        /\ i < j
        /\ rrf_fused[i].id = rrf_lists[1][1].id
        /\ rrf_fused[j].id = rrf_lists[1][2].id

\* C13 as stated: with A first and B second in both lists the fusion places
\* A before B.
C13_ABeforeB ==
    (pc = "fused" /\ FirstAndSecondAgree) => APrecedesB

\* C13 amended: with A first and B second in both lists, A and B of different
\* texts and no further result of a list holding B's text, the fusion places
\* A before B; the output is the value of the call on these lists, whenever
\* it is made.
C13_ABeforeBDistinctTexts ==
    (/\ pc = "fused"
     /\ FirstAndSecondAgree
     /\ rrf_lists[1][1].chunk_text # rrf_lists[1][2].chunk_text
     /\ \A l \in 1..2 : Positions(rrf_lists[l], rrf_lists[1][2].chunk_text) = {2}) =>
        /\ APrecedesB
        /\ rrf_fused = reciprocal_rank_fusion(rrf_lists, RRF_K)

\* A and B lead two lists of three results each and come out first and second
C13_Witness ==
    /\ pc = "fused"
    /\ FirstAndSecondAgree
    /\ Len(rrf_lists[1]) = 3
    /\ Len(rrf_lists[2]) = 3
    /\ rrf_lists[1][1].chunk_text # rrf_lists[1][2].chunk_text
    /\ \A l \in 1..2 : Positions(rrf_lists[l], rrf_lists[1][2].chunk_text) = {2}
    /\ rrf_fused[1].id = rrf_lists[1][1].id
    /\ rrf_fused[2].id = rrf_lists[1][2].id

----------------------------------------------------------------------------
(* Properties of the diversity filter and of late-interaction scoring *)

\* C14: for a non-empty input and every threshold the output of
\* apply_diversity_filter starts with the first input document, and any two
\* documents at different places of the output have a similarity below the
\* threshold.
C14_DiverseAndTopKept ==
    (pc = "filtered" /\ stage_in.documents # <<>>) =>
        /\ stage_out # <<>>
        /\ stage_out[1] = stage_in.documents[1]
        /\ \A i, j \in 1..Len(stage_out) :
              i # j => Cosine(stage_in.sim, stage_out[i].chunk_text,
                              stage_out[j].chunk_text) < stage_in.threshold

\* three documents at the default threshold, one of them removed
C14_Witness ==
    /\ pc = "filtered"
    /\ Len(stage_in.documents) = 3
    /\ stage_in.threshold = DiversityThreshold
    /\ Len(stage_out) = 2
    /\ stage_out[2] = stage_in.documents[3]

\* C15: a candidate whose text has no sentence comes out of late-interaction
\* scoring with multi_vec_score 0, also when no candidate of the batch has a
\* sentence, and stands after every candidate with a positive score.
C15_ZeroSentenceScoresZero ==
    pc = "scored" =>
        \A i \in 1..Len(stage_out) :
            NoSentences(stage_in.sent, stage_out[i].chunk_text) =>
                /\ "multi_vec_score" \in DOMAIN stage_out[i]
                /\ stage_out[i].multi_vec_score = 0
                /\ \A j \in 1..Len(stage_out) :
                      stage_out[j].multi_vec_score > 0 => j < i

----------------------------------------------------------------------------
(* Properties of the fan-outs *)

InStore == {i \in Tasks : task_pc[i] = "store"}
Waiting == {"result_vector", "result_bm25", "exit_with", "exit_raise", "collect"}

\* C17: at most one task is inside the store read at any moment; the lock is
\* held exactly by the task inside the store read, so no task holds it while
\* it embeds the query, scores with BM25 or computes similarities.
C17_StoreReadsExclusive ==
    /\ Cardinality(InStore) <= 1
    /\ db_lock # 0 => db_lock \in Tasks /\ task_pc[db_lock] = "store"
    /\ \A i \in Tasks : task_pc[i] = "store" => db_lock = i
    /\ \A i \in Tasks : task_pc[i] \in {"embed", "compute"} => db_lock # i

\* one task reads the store while a second waits for the lock and a third
\* computes outside the lock
C17_Witness ==
    \E i, j, h \in Tasks :
        /\ task_pc[i] = "store" /\ db_lock = i
        /\ task_pc[j] = "acquire"
        /\ task_pc[h] = "compute"

\* C18: the fusion (standard) and the dedup (thorough) start only when every
\* task of the fan-out is over, with a result or an exception: while a task is
\* queued or running the controller is still waiting and has taken no
\* candidate list.
C18_JoinAll ==
    /\ Over # Tasks => pc \in Waiting /\ cands = <<>> /\ repeat = <<>>
    /\ pc \in {"standard_rerank", "multi_vector"} => Over = Tasks
    /\ pc = "multi_vector" => \A i \in Tasks : task_pc[i] = "yielded"
    /\ pc = "standard_rerank" => \A i \in Tasks : fut[i].state = "done"

\* the dedup ran on a fan-out of six tasks, one of which had failed
C18_Witness ==
    /\ pc = "multi_vector"
    /\ Len(task_pc) = 6
    /\ diagnostics = 1
    /\ cands # <<>>

\* C19: when search has returned or raised, every task it submitted is over:
\* none is queued, running or left out, also after a sibling failed.
C19_NoReturnBeforeTasksEnd ==
    outcome # "running" =>
        /\ Over = Tasks
        /\ db_lock = 0
        /\ mode = "standard" => Len(task_pc) = 2
        /\ (mode = "thorough" /\ variants # <<>>) =>
              Len(task_pc) = 2 * Min(Len(variants), FanoutVariants)

\* standard mode raised for the failed dense task after the lexical task, which
\* read the store and scored, had run to its end
C19_Witness ==
    /\ mode = "standard"
    /\ outcome = "raised"
    /\ fut[1].state = "failed"
    /\ fut[2].state = "done"
    /\ calls["bm25"] = 1

\* one task per signal for each of the first min(5, n) of n variants
OnePerVariantAndSignal(futures, n) ==
    /\ Len(futures) = 2 * Min(n, FanoutVariants)
    /\ \A v \in 1..Min(n, FanoutVariants) : \A sig \in {"dense", "bm25"} :
          Cardinality({i \in 1..Len(futures) :
                          futures[i].variant = v /\ futures[i].signal = sig}) = 1

\* C20: no more than max_workers tasks of the thorough fan-out (2 of the
\* standard one) run at the same time; the thorough fan-out holds one dense
\* and one lexical task for each of the first min(5, n) variants and no other
\* task, the standard one a dense and a lexical task for the root query.
C20_PoolWidthAndTasks ==
    /\ Cardinality(Running) <= Workers
    /\ mode = "thorough" => Cardinality(Running) <= max_workers
    /\ pc = "collect" =>
          /\ OnePerVariantAndSignal(fut, Len(variants))
          /\ Len(task_pc) = Len(fut)
    /\ (mode = "standard" /\ pc \in Waiting) =>
          /\ Len(fut) = 2
          /\ fut[1].variant = 1 /\ fut[1].signal = "dense"
          /\ fut[2].variant = 1 /\ fut[2].signal = "bm25"
    /\ pc = "search" =>
          \A n \in 1..VariantCap : OnePerVariantAndSignal(Submitted([v \in 1..n |-> v]), n)

\* six tasks submitted, four of them running and two still queued
C20_Witness ==
    /\ mode = "thorough"
    /\ Len(task_pc) = 6
    /\ Cardinality(Running) = max_workers
    /\ Cardinality({i \in Tasks : task_pc[i] = "queued"}) = 2

----------------------------------------------------------------------------
(* Properties of query enhancement *)

FailedEnhancements == {i \in 1..Len(fut) : fut[i].state = "failed"}

\* C21: in thorough mode, when one of the three enhancement tasks raises and
\* the other two succeed, search does not raise (the failing enhancement is
\* dropped and retrieval goes on with the variants of the other two).
C21_PartialEnhancementFailure ==
    (/\ pc = "done"
     /\ Cardinality(FailedEnhancements) = 1
     /\ \A i \in 1..Len(fut) : Finished(fut[i]))
        => outcome # "raised"

\* C22: in thorough mode no lexical search task is submitted with the
\* hypothetical-answer text as its query.
C22_HypotheticalDenseOnly ==
    pc = "fanout" =>
        \A i \in 1..Len(fut) :
            fut[i].signal = "bm25" => fut[i].variant # create_hypothetical_document(query)

FirstIndex(raw, x) == CHOOSE i \in 1..Len(raw) : raw[i] = x /\ \A j \in 1..(i - 1) : raw[j] # x

\* out holds at most cap strings of raw, none twice, in the order of their
\* first occurrence in raw
FirstSeen(raw, out, cap) ==
    /\ Len(out) <= cap
    /\ \A i, j \in 1..Len(out) : out[i] = out[j] => i = j
    /\ \A i \in 1..Len(out) : out[i] \in Range(raw)
    /\ \A i, j \in 1..Len(out) : i < j => FirstIndex(raw, out[i]) < FirstIndex(raw, out[j])

EnhancementsDone ==
    /\ Len(fut) = 3
    /\ \A i \in 1..3 : fut[i].signal = EnhanceSignals[i] /\ fut[i].state = "done"

\* C23: decompose_query and generate_search_variations each return at most 5
\* strings, none repeated, in first-seen order; the merged variant list has
\* at most 7 entries, none repeated, the root query first, in the order of
\* first occurrence in root + sub-queries + variations + hypothetical text.
C23_VariantLists ==
    /\ \A i \in 1..Len(fut) :
          /\ (fut[i].signal = "decompose_query" /\ fut[i].state = "done")
                => FirstSeen(sub_queries(query), fut[i].result, 5)
          /\ (fut[i].signal = "generate_search_variations" /\ fut[i].state = "done")
                => FirstSeen(variations(query), fut[i].result, 5)
    /\ (pc = "submit" /\ EnhancementsDone) =>
          /\ FirstSeen(<<Root>> \o fut[1].result \o fut[2].result \o fut[3].result,
                       variants, 7)
          /\ variants[1] = Root

\* both caps cut something off and a repeated string was dropped
C23_Witness ==
    /\ pc = "submit"
    /\ EnhancementsDone
    /\ Cardinality(Range(sub_queries(query))) > 5
    /\ Len(fut[1].result) = 5
    /\ Cardinality(Range(sub_queries(query))) < Len(sub_queries(query))
    /\ Cardinality(Range(fut[1].result) \cup Range(fut[2].result) \cup Range(fut[3].result)) > 7
    /\ Len(variants) = 7

----------------------------------------------------------------------------
(* Properties of the stage boundaries of thorough mode *)

\* the stage calls of thorough_search after the fan-out, in call order
DedupCall == 1
MultiVectorCall == 2
RerankCall == 3
DiversityCall == 4

StageCalls == 1..Len(stage_out)

\* C24: in thorough mode each sub-search contributes at most 10 candidates,
\* the late-interaction scorer receives at most 50 and returns at most 30,
\* the reranker returns at most 20, and no stage returns more candidates
\* than it received.
C24_StageSizes ==
    /\ \A i \in 1..Len(fut) : fut[i].state = "done" => Len(fut[i].result) <= 10
    /\ MultiVectorCall \in StageCalls =>
          Len(stage_in[MultiVectorCall]) <= 50 /\ Len(stage_out[MultiVectorCall]) <= 30
    /\ RerankCall \in StageCalls => Len(stage_out[RerankCall]) <= 20
    /\ \A c \in StageCalls : Len(stage_out[c]) <= Len(stage_in[c])

\* every cut took something away
C24_Witness ==
    /\ pc = "done"
    /\ Len(corpus) > 10
    /\ \E i \in 1..Len(fut) : Len(fut[i].result) = 10
    /\ Len(stage_out[DedupCall]) > 50
    /\ Len(stage_in[MultiVectorCall]) = 50
    /\ Len(stage_out[MultiVectorCall]) = 30
    /\ Len(stage_out[RerankCall]) = 20
    /\ Len(stage_out[DiversityCall]) < 20

\* the place of a text in a list of results with different texts
PlaceOf(list, t) == CHOOSE j \in 1..Len(list) : list[j].chunk_text = t

\* result a goes before result b in a rerank of list with the scores rr:
\* higher score first, equal scores in list order
RanksBefore(list, rr, a, b) ==
    \/ rr[a] > rr[b]
    \/ rr[a] = rr[b] /\ PlaceOf(list, a) < PlaceOf(list, b)

\* C25: in standard mode the result is exactly the top_k candidates with
\* the highest rerank score among the first 15 of the fused ranking (all of
\* them when there are fewer), in non-increasing rerank score with ties in
\* fused-rank order; no candidate ranked below 15th is returned.
C25_StandardTopOfFirst15 ==
    (pc = "done" /\ outcome = "returned" /\ mode = "standard" /\ stage_in # <<>>) =>
        LET first15 == Take(cands, 15)
            rr      == stage_in[1].scores
            kept    == TextsOf(result)
        IN  /\ Len(result) = Min(top_k, Len(first15))
            /\ kept \subseteq TextsOf(first15)
            /\ \A i, j \in 1..Len(result) :
                  i < j => RanksBefore(first15, rr, result[i].chunk_text, result[j].chunk_text)
            /\ \A t \in TextsOf(first15) \ kept :
                  \A u \in kept : RanksBefore(first15, rr, u, t)
            /\ \A i \in 1..Len(result) :
                  /\ result[i].rerank_score = rr[result[i].chunk_text]
                  /\ result[i].id = first15[PlaceOf(first15, result[i].chunk_text)].id
            /\ \A j \in 16..Len(cands) : cands[j].chunk_text \notin kept

\* more than 15 fused candidates, the cross-encoder prefers one ranked below
\* 15th, and two returned candidates tie
C25_Witness ==
    /\ pc = "done"
    /\ outcome = "returned"
    /\ mode = "standard"
    /\ stage_in # <<>>
    /\ Len(cands) > 15
    /\ Len(result) >= 2
    /\ result[1].rerank_score = result[2].rerank_score
    /\ \E j \in 16..Len(cands) :
          stage_in[1].scores[cands[j].chunk_text] > result[1].rerank_score

NoIdTwice(list) == \A i, j \in 1..Len(list) : list[i].id = list[j].id => i = j

NoChunkTwice(list) ==
    \A i, j \in 1..Len(list) :
        (list[i].id = list[j].id \/ list[i].chunk_text = list[j].chunk_text) => i = j

\* C26: the fusion output, the dedup output of thorough mode, the
\* late-interaction output, the rerank output and the diversity-filter output
\* hold no chunk twice, by id and by text; the list search returns holds no
\* chunk twice by id, and by text where the mode keys its candidates by text.
C26_NoChunkTwice ==
    /\ pc \in {"standard_rerank", "multi_vector", "rerank", "diversity"} => NoChunkTwice(cands)
    /\ outcome = "returned" =>
          /\ NoIdTwice(result)
          /\ mode # "fast" => NoChunkTwice(result)

\* two chunks of the same text were found by both sub-searches and one
\* result came back
C26_Witness ==
    /\ pc = "done"
    /\ outcome = "returned"
    /\ mode = "standard"
    /\ Len(corpus) = 2
    /\ corpus[1].text = corpus[2].text
    /\ \A i \in 1..Len(fut) : fut[i].state = "done" /\ Len(fut[i].result) = 2
    /\ Len(result) = 1

\* the fields of a result dict that are not columns of the docs table
ScoreFields(doc) == DOMAIN doc \ {"id", "source", "chunk_text", "metadata"}

\* C27: a returned candidate carries the score of every stage it passed
\* through: in thorough mode its retrieval score, a late-interaction score
\* and a rerank score; in standard mode its retrieval score, a fusion score
\* and a rerank score.
C27_ScoreOfEveryStage ==
    (outcome = "returned" /\ mode # "fast") =>
        \A i \in 1..Len(result) :
            /\ {"score", "rerank_score"} \subseteq ScoreFields(result[i])
            /\ IF mode = "standard"
               THEN ScoreFields(result[i]) \ {"score", "rerank_score"} # {}
               ELSE "multi_vec_score" \in ScoreFields(result[i])

\* the query embeddings of the dense retrieval tasks that have run
FanoutEmbeds == Cardinality({i \in 1..Len(fut) : fut[i].signal = "dense" /\ Finished(fut[i])})

Made(stage, n) == IF stage \in StageCalls THEN n ELSE 0

\* C28: each scoring stage issues one batched collaborator call per
\* invocation, whatever the number of candidates: the reranker one scoring
\* call, the late-interaction scorer one embedding call for the sentences
\* besides the one for the query, the diversity filter one embedding call.
C28_BatchedCalls ==
    /\ calls["rerank"] <= Made(RerankCall, 1)
    /\ calls["embed"] <= FanoutEmbeds + Made(MultiVectorCall, 2) + Made(DiversityCall, 1)

\* the three stages ran on 50, 30 and 20 candidates
C28_Witness ==
    /\ pc = "done"
    /\ Len(stage_in[MultiVectorCall]) = 50
    /\ Len(stage_in[RerankCall]) = 30
    /\ Len(stage_in[DiversityCall]) = 20
    /\ calls["rerank"] = 1
    /\ calls["embed"] = FanoutEmbeds + 3

\* C29: when every collaborator call returns or raises, every search call
\* returns or raises under fair scheduling: the store lock is released on
\* every exit from a guarded read, also when the read raises, so no task
\* stays blocked on the lock.
C29_EverySearchEnds == <>(pc = "done")

\* a lexical task failed in its store read and a task that waits for the
\* lock finds it free
C29_Witness ==
    /\ \E i \in Tasks : fut[i].signal = "bm25" /\ fut[i].state = "failed"
    /\ \E j \in Tasks : task_pc[j] = "acquire"
    /\ db_lock = 0

----------------------------------------------------------------------------
(* Properties of the candidates *)

\* what a result dict says of its chunk
Chunk(doc) ==
    [id |-> doc.id, source |-> doc.source, chunk_text |-> doc.chunk_text,
     metadata |-> doc.metadata]

ChunksOf(list) == {Chunk(list[i]) : i \in 1..Len(list)}

\* the rows of the docs table
CorpusChunks ==
    {[id |-> corpus[i].id, source |-> corpus[i].source, chunk_text |-> corpus[i].text,
      metadata |-> corpus[i].metadata] : i \in 1..Len(corpus)}

\* the chunks the retrieval tasks returned
Retrieved == UNION {ChunksOf(fut[i].result) : i \in 1..Len(fut)}

FromCorpus ==
    /\ ChunksOf(result) \subseteq CorpusChunks
    /\ result # <<>> => calls["store"] >= 1

\* a stage hands on, or returns, only candidates it received
OnlyFromInput ==
    /\ (pc = "standard_fanout" /\ pc' = "standard_rerank") => ChunksOf(cands') \subseteq Retrieved
    /\ (pc = "fanout" /\ pc' = "multi_vector") =>
          ChunksOf(cands') \subseteq ChunksOf(all_results) /\ ChunksOf(all_results) \subseteq Retrieved
    /\ pc \in {"multi_vector", "rerank"} => ChunksOf(cands') \subseteq ChunksOf(cands)
    /\ pc \in {"standard_rerank", "diversity"} => ChunksOf(result') \subseteq ChunksOf(cands)

\* C30: in every mode every returned candidate is a chunk read from the
\* corpus during the call, with its id, source, text and metadata unchanged,
\* and the output of each stage (fusion, dedup, late-interaction, rerank,
\* diversity filter) holds only candidates of that stage's input.
C30_OnlyChunksOfTheCorpus == []FromCorpus /\ [][OnlyFromInput]_vars

\* a thorough call returned fewer chunks than the store holds
C30_Witness ==
    /\ pc = "done"
    /\ outcome = "returned"
    /\ mode = "thorough"
    /\ Len(result) >= 1
    /\ Len(result) < Len(corpus)
    /\ calls["store"] >= 1

====
